---- MODULE Spec2Model ----
(***************************************************************************)
(* A model of web_test_automation_mcp: the asynchronous JSON-RPC client    *)
(* (src/mcp_client/jsonrpc.py, session.py, transport.py) and the agent     *)
(* loop (src/agent/loop.py, memory.py, retry.py, src/browser/observe.py).  *)
(*                                                                         *)
(* One asyncio event loop runs the callers of McpSession.request(), the    *)
(* background reader task, and McpSession.stop() / StdioTransport.stop().  *)
(* A coroutine runs without interruption between two awaits, so each       *)
(* action below is the code between two suspension points.  The child      *)
(* process is the environment: what it writes on its standard output is    *)
(* drawn from Messages, and it may read its input or not, close its output *)
(* or not, and exit or not.  Every timeout may fire whenever its wait is   *)
(* pending.                                                                *)
(***************************************************************************)
EXTENDS Integers, Sequences, FiniteSets, TLC

\* ---------------------------------------------------------------- bounds
\* Largest id the process-wide counter hands out in a run of the model.
MaxId == 3
\* Number of request() calls made on the session.
MaxCalls == 2
\* Number of notification handlers registered.
MaxHandlers == 1
\* Number of McpSession.stop() calls, and of direct StdioTransport.stop() calls.
MaxStops == 2
\* Number of handlers registered where the order of their calls is observed.
MaxListeners == 2
\* Number of notifications the child sends where their delivery is observed.
MaxNotes == 2
\* Largest max_steps an AgentLoop is built with, and the number of decisions
\* an oracle's behaviour fixes.
MaxSteps == 2
\* Largest step_retry_limit an AgentLoop is built with.
MaxRetryLimit == 2
\* Largest attempt number and ceiling should_retry is applied to.
MaxAttempt == 5

\* ------------------------------------------------------------- id values
\* The JSON values a message carries under "id".  n is the number an id
\* spells: the integer n, the string "n", the float n.5; null and a
\* non-numeric string spell none.
IntId(n) == [t |-> "int", n |-> n]
StrId(n) == [t |-> "str", n |-> n]
FloatId(n) == [t |-> "float", n |-> n]
NullId == [t |-> "null", n |-> 0]
TextId == [t |-> "text", n |-> 0]
NoId == [t |-> "none", n |-> 0]

IdValues ==
    {IntId(n) : n \in 1..MaxId} \cup {StrId(n) : n \in 1..MaxId}
        \cup {FloatId(n) : n \in 1..MaxId} \cup {NullId, TextId}

\* int(message["id"]): an integer is itself, a decimal string is parsed, a
\* float is truncated toward zero; None raises TypeError and a non-numeric
\* string raises ValueError.
IntOf(idv) ==
    IF idv.t \in {"int", "str", "float"} THEN [ok |-> TRUE, v |-> idv.n]
    ELSE [ok |-> FALSE, v |-> 0]

\* --------------------------------------------------------------- messages
\* One line read from the child's standard output.  line says what
\* json.loads makes of it: a JSON object, another JSON value, or a parse
\* error.  The other fields are those the classifiers look at.
Results == {"ra", "rb"}
ErrShapes == {"full", "empty", "nondict"}

Msg(jsonrpc, hasId, id, hasMethod, hasResult, result, hasError, err) ==
    [line |-> "object", jsonrpc |-> jsonrpc, hasId |-> hasId, id |-> id,
     hasMethod |-> hasMethod, hasResult |-> hasResult, result |-> result,
     hasError |-> hasError, err |-> err]

ResultMsg(id, r) == Msg(TRUE, TRUE, id, FALSE, TRUE, r, FALSE, "none")
ErrorMsg(id, e) == Msg(TRUE, TRUE, id, FALSE, FALSE, "none", TRUE, e)
NotificationMsg == Msg(TRUE, FALSE, NoId, TRUE, FALSE, "none", FALSE, "none")
\* A request from the server: a method and an id.
ServerRequestMsg == Msg(TRUE, TRUE, IntId(1), TRUE, FALSE, "none", FALSE, "none")
\* A result with an id but without the "jsonrpc": "2.0" tag.
UntaggedMsg == Msg(FALSE, TRUE, IntId(1), FALSE, TRUE, "ra", FALSE, "none")
ArrayLine == [Msg(FALSE, FALSE, NoId, FALSE, FALSE, "none", FALSE, "none")
                EXCEPT !.line = "array"]
GarbageLine == [ArrayLine EXCEPT !.line = "garbage"]
\* No message: what a call that the reader has not resolved was resolved by.
NoMsg == [ArrayLine EXCEPT !.line = "none"]

Messages ==
    {ResultMsg(IntId(n), r) : n \in 1..MaxId, r \in Results}
        \cup {ResultMsg(i, "ra") : i \in IdValues}
        \cup {ErrorMsg(IntId(n), e) : n \in 1..MaxId, e \in ErrShapes}
        \cup {NotificationMsg, ServerRequestMsg, UntaggedMsg, ArrayLine, GarbageLine}

is_response(m) == m.jsonrpc /\ m.hasId /\ (m.hasResult \/ m.hasError)

is_notification(m) == m.jsonrpc /\ m.hasMethod /\ ~m.hasId

\* What a future holds, and what request() hands to its caller.
Outcome(k, v, code, message) == [k |-> k, v |-> v, code |-> code, message |-> message]
NoOutcome == Outcome("none", "none", 0, "")
DefaultErrorCode == 0 - 32000

\* extract_result: the "result" member, or JsonRpcError built from the
\* "error" member with its defaults; an "error" member that is no object
\* makes err.get raise AttributeError.
extract_result(m) ==
    IF m.hasError
    THEN CASE m.err = "full" -> Outcome("JsonRpcError", "data", 7, "msg")
           [] m.err = "empty" ->
                Outcome("JsonRpcError", "none", DefaultErrorCode, "Unknown JSON-RPC error")
           [] OTHER -> Outcome("AttributeError", "none", 0, "")
    ELSE Outcome("result", m.result, 0, "")

\* ------------------------------------------------------------------ state
VARIABLES
    nextId,      \* jsonrpc._jsonrpc_id: the next id the process-wide counter yields
    calls,       \* the request() calls made on the session, in call order
    pending,     \* McpSession._pending: id -> index in calls of the call owning the future
    handlers,    \* McpSession._notifications, in registration order
    started,     \* McpSession.start() has been called
    reader,      \* McpSession._reader_task: none, running, cancelled, failed
    proc,        \* StdioTransport._process is not None
    child,       \* the child process: none, alive, dead
    stdin,       \* the pipe to the child's input: none, open, closed
    pipeFull,    \* bytes written to the child's input that the child has not read
    stdoutEOF,   \* the child's output has ended
    isNT,        \* os.name == "nt"
    sstop,       \* McpSession.stop(): its position, and how its last call ended
    tstop,       \* StdioTransport.stop(): its position and who called it
    nStops,      \* stop() calls made so far: [session |-> n, transport |-> n]
    arrived,     \* notifications the reader has taken from recv() so far
    delivered,   \* the handler calls made: <<notification, handler position>>, in call order
    agent,       \* AgentLoop: max_steps, step_retry_limit, consecutive_unchanged_count
    oracle,      \* the decision oracle: what each of its calls does, and the calls made
    run,         \* AgentLoop.run(): its position, step_idx, what _observe captured
    memory,      \* the AgentMemory run() builds and returns
    adapter,     \* DevToolsAdapter: _last_action_tools, and how its action tools end
    retryCase,   \* an application of should_retry: its arguments and its value
    policyCase,  \* an application of _decision_to_action: the decision and the action
    resolveCase, \* a call of _resolve_uid: the token, the roles, the snapshot, how it ended
    exec,        \* a call of AgentLoop._execute_action: position, action, payload, outcome
    resolver     \* a call of DevToolsAdapter.click or type_text: position, clock, tool calls

vars ==
    <<nextId, calls, pending, handlers, started, reader, proc, child, stdin,
      pipeFull, stdoutEOF, isNT, sstop, tstop, nStops, arrived, delivered,
      agent, oracle, run, memory, adapter, retryCase, policyCase, resolveCase,
      exec, resolver>>

sessionVars == <<nextId, calls, pending, handlers>>
stopVars == <<sstop, tstop, nStops>>
processVars == <<proc, child, stdin, pipeFull, stdoutEOF, isNT>>
notifyVars == <<arrived, delivered>>
agentVars == <<agent, oracle, run, memory, adapter>>
unitVars == <<retryCase, policyCase, resolveCase, exec, resolver>>
\* What the JSON-RPC client's actions other than the observed delivery of
\* notifications leave alone.
otherVars == <<notifyVars, agentVars, unitVars>>

\* A request() call: the id build_request gave it, where the coroutine is
\* (drain: in transport.send; wait: in wait_for(fut); returned; raised),
\* the exception it raised, its future (pending, result, exception,
\* cancelled), what the future holds, the message the reader resolved it
\* with, and how many times the reader set it.
Call(id, st, exc) ==
    [id |-> id, st |-> st, exc |-> exc, fut |-> "pending", out |-> NoOutcome,
     by |-> NoMsg, nset |-> 0]

\* The session and its transport as their constructors leave them, with the
\* counter of a fresh process.
Constructed ==
    /\ nextId = 1
    /\ calls = <<>>
    /\ pending = <<>>
    /\ handlers = <<>>
    /\ started = FALSE
    /\ reader = "none"
    /\ proc = FALSE
    /\ child = "none"
    /\ stdin = "none"
    /\ pipeFull = FALSE
    /\ stdoutEOF = FALSE
    /\ sstop = [pc |-> "idle", invokedT |-> FALSE]
    /\ tstop = [pc |-> "idle", caller |-> "none"]
    /\ nStops = [session |-> 0, transport |-> 0]
    /\ arrived = 0
    /\ delivered = <<>>

\* ------------------------------------------------------------- agent data
\* None: a last_error that was never set.
None == "None"

\* What one call of decide_next_action does: it returns a decision whose
\* action is not "done", returns the decision "done", or raises.
Decisions == {"act", "done", "raise"}

\* How one sub-capture of _observe ends: the adapter call returns within
\* its wait_for timeout, or it raises or times out (except Exception).
Captures == {"ok", "err"}

\* AgentLoop.__init__: the budget and the retry ceiling are stored as
\* given, and the consecutive-unchanged counter starts at 0.
NewAgentLoop(max_steps, step_retry_limit) ==
    [max_steps |-> max_steps, step_retry_limit |-> step_retry_limit,
     consecutive_unchanged_count |-> 0]

\* AgentMemory(prompt=..., test_plan=...): the defaults of the other fields.
\* history holds the events pushed, [step, attempt, success].
AgentMemory == [step_index |-> 0, history |-> <<>>, last_error |-> None, success |-> FALSE]

\* run() has not been called; "idle" is an AgentLoop before run().
NoRun ==
    [pc |-> "none", step_idx |-> 0, shot |-> "none", dom |-> "none",
     console |-> "none", exc |-> "none"]

\* How the tools behind the adapter's action methods end, all through a
\* run: with a payload that is no failure, with one that is, or by raising.
ActOutcomes == {"ok", "fail", "raise"}

\* DevToolsAdapter.__init__: no tool is recorded.
NewAdapter(acts) == [tools |-> <<>>, acts |-> acts]

\* No AgentLoop exists.
NoAgentLoop ==
    /\ agent = NewAgentLoop(0, 0)
    /\ oracle = [script |-> <<>>, consulted |-> 0]
    /\ run = NoRun
    /\ memory = AgentMemory
    /\ adapter = NewAdapter("ok")

\* DevToolsAdapter._called_tool on the list tools: the name is appended
\* unless the list has it.
Track(tools, name) ==
    IF \E i \in 1..Len(tools) : tools[i] = name THEN tools ELSE Append(tools, name)

\* BrowserAction.timeout_ms, the default of the dataclass.
DefaultTimeoutMs == 5000

\* BrowserAction(action_type=..., selector=..., value=..., url=...,
\* wait_event=...): the fields as given, timeout_ms at its default.
BrowserAction(action_type, selector, value, url, wait_event) ==
    [action_type |-> action_type, selector |-> selector, value |-> value,
     url |-> url, wait_event |-> wait_event, timeout_ms |-> DefaultTimeoutMs]

\* A raw decision of the oracle: whether it has an "action" member, its
\* value (a string as spelled, or null), and the members the action takes.
Decision(hasAction, action, selector, value, url, wait_event) ==
    [hasAction |-> hasAction, action |-> action, selector |-> selector,
     value |-> value, url |-> url, wait_event |-> wait_event]

\* _decision_to_action has not been applied.
NoPolicyCase ==
    [st |-> "none", decision |-> Decision(FALSE, None, None, None, None, None),
     action |-> BrowserAction("", None, None, None, None),
     direct |-> BrowserAction("", None, None, None, None),
     planned |-> [action |-> "", selector |-> None, value |-> None, url |-> None,
                  wait_event |-> None]]

\* _resolve_uid has not been called.
NoResolveCase ==
    [st |-> "none", token |-> "", roles |-> <<>>, lines |-> <<>>,
     result |-> [ok |-> FALSE, uid |-> None, tier |-> "none"]]

\* JSON values, as the tool payloads and what is built from them are: a
\* boolean, a string, a number, an object (its members in order, as
\* <<key, value>>), an array, and Python's None.
JBool(b) == [t |-> "bool", b |-> b, s |-> "", items |-> <<>>]
JStr(str) == [t |-> "str", b |-> FALSE, s |-> str, items |-> <<>>]
JNum == [t |-> "num", b |-> FALSE, s |-> "", items |-> <<>>]
JNone == [t |-> "none", b |-> FALSE, s |-> "", items |-> <<>>]
JDict(items) == [t |-> "dict", b |-> FALSE, s |-> "", items |-> items]
JList(items) == [t |-> "list", b |-> FALSE, s |-> "", items |-> items]

\* The outcome _execute_action returns: success, the reason (pieces of text
\* joined; none on success), whether "raw" is set, and tools_used.
ActionOutcome(success, reason, raw, tools_used) ==
    [success |-> success, reason |-> reason, raw |-> raw, tools_used |-> tools_used]

\* _execute_action has not been called.
NoExec ==
    [pc |-> "none", action |-> BrowserAction("", None, None, None, None),
     method |-> "none", invoked |-> <<>>, called |-> 0, left |-> <<>>,
     exc |-> [type |-> None, msg |-> ""], recovered |-> FALSE, raw |-> JNone,
     payload |-> JNone, hasBody |-> FALSE, readiness |-> "none",
     result |-> ActionOutcome(FALSE, <<>>, JNone, <<>>)]

\* What evaluate_script returns to click and type_text, by what they look
\* at: whether it is an object, its isError, a top-level member ok, success
\* or status and its truth, whether its text holds "ok":false or
\* "success":false, whether it holds "ok":true or "success":true, and
\* whether it holds the text of the script's miss.
ScriptRaw(dict, isError, member, truth, textFalse, textTrue, miss) ==
    [dict |-> dict, isError |-> isError, member |-> member, truth |-> truth,
     textFalse |-> textFalse, textTrue |-> textTrue, miss |-> miss]

\* click and type_text have not been called.
NoResolver ==
    [pc |-> "none", method |-> "none", token |-> "", time |-> 0, log |-> <<>>,
     scripts |-> <<>>,
     result |-> [source |-> "none",
                 script |-> ScriptRaw(FALSE, FALSE, "none", FALSE, FALSE, FALSE, FALSE),
                 tool |-> "none"]]

\* should_retry has not been applied.
NoCase ==
    [step_attempt |-> 0, max_attempts |-> 0, has_error |-> FALSE, st |-> "none",
     value |-> FALSE, again |-> FALSE]
\* No function or method is applied on its own.
NoUnits ==
    /\ retryCase = NoCase
    /\ policyCase = NoPolicyCase
    /\ resolveCase = NoResolveCase
    /\ exec = NoExec
    /\ resolver = NoResolver

\* The platform is read only by StdioTransport.stop().
Init == Constructed /\ isNT = FALSE /\ NoAgentLoop /\ NoUnits

StopInit == Constructed /\ isNT \in BOOLEAN /\ NoAgentLoop /\ NoUnits

\* ------------------------------------------------------------- dict helpers
\* self._pending[key] = value
DictPut(d, key, value) ==
    [k \in (DOMAIN d) \cup {key} |-> IF k = key THEN value ELSE d[k]]

\* the dict left by self._pending.pop(key, None)
DictPop(d, key) == [k \in (DOMAIN d) \ {key} |-> d[k]]

\* ------------------------------------------------------------------ ids
\* A counter that is read but not advanced.
next_id_NotAdvanced(counter) == [id |-> counter, counter |-> counter]

\* next(_jsonrpc_id) on itertools.count(1): the value yielded is the
\* counter, which then advances by one.  Python integers do not overflow.
next_id(counter) == [id |-> counter, counter |-> counter + 1]

\* Another user of the module-level counter (a second session of the same
\* process) builds a request.
OtherSessionRequest ==
    /\ nextId <= MaxId
    /\ nextId' = next_id(nextId).counter
    /\ UNCHANGED <<calls, pending, handlers, started, reader, processVars, otherVars, stopVars>>

\* -------------------------------------------------------------- lifecycle
\* McpSession.start(): transport.start() spawns the child (or raises when the
\* executable cannot be launched, leaving _reader_task None), then the
\* reader task is created.
SessionStart ==
    /\ ~started
    /\ started' = TRUE
    /\ \/ /\ proc' = TRUE
          /\ child' = "alive"
          /\ stdin' = "open"
          /\ reader' = "running"
       \/ UNCHANGED <<proc, child, stdin, reader>>
    /\ UNCHANGED <<sessionVars, pipeFull, stdoutEOF, isNT, otherVars, stopVars>>

\* McpSession.on_notification(handler): h says whether the handler returns
\* or raises when called.
OnNotification(h) ==
    /\ handlers' = Append(handlers, h)
    /\ UNCHANGED <<nextId, calls, pending, started, reader, processVars, otherVars, stopVars>>

\* ---------------------------------------------------------------- request
\* McpSession.request() up to its first suspension: build_request draws the
\* id, the future is created and stored under the id, and transport.send
\* either raises at once (no process, no stdin) or writes the line and
\* awaits drain().  full: the write leaves the pipe's buffer above its
\* high-water mark.
RequestStart(full) ==
    /\ Len(calls) < MaxCalls
    /\ nextId <= MaxId
    /\ LET n == next_id(nextId)
           idx == Len(calls) + 1
       IN /\ nextId' = n.counter
          /\ pending' = DictPut(pending, n.id, idx)
          /\ IF ~proc \/ stdin = "none"
             THEN /\ calls' = Append(calls, Call(n.id, "raised", "RuntimeError"))
                  /\ UNCHANGED pipeFull
             ELSE /\ calls' = Append(calls, Call(n.id, "drain", "none"))
                  /\ pipeFull' = (pipeFull \/ (full /\ stdin = "open"))
    /\ UNCHANGED <<handlers, started, reader, proc, child, stdin, stdoutEOF, isNT, otherVars,
                   stopVars>>

\* wait_for(fut, ...) on a future that is done: request() returns the
\* future's result or raises its exception.  On a pending future it waits.
Resumed(call) ==
    CASE call.fut = "result" -> [call EXCEPT !.st = "returned"]
      [] call.fut = "exception" -> [call EXCEPT !.st = "raised", !.exc = call.out.k]
      [] OTHER -> [call EXCEPT !.st = "wait"]

\* await self._process.stdin.drain() returns: the buffer is below the
\* high-water mark.  request() goes on to wait_for(fut, timeout).
DrainReturns(c) ==
    /\ calls[c].st = "drain"
    /\ ~pipeFull
    /\ stdin = "open"
    /\ calls' = [calls EXCEPT ![c] = Resumed(calls[c])]
    /\ UNCHANGED <<nextId, pending, handlers, started, reader, processVars, otherVars, stopVars>>

\* drain() raises (the pipe is closed or broken): send, and so request(),
\* raises.  Nothing is removed from _pending.
DrainRaises(c) ==
    /\ calls[c].st = "drain"
    /\ stdin = "closed" \/ child = "dead"
    /\ calls' = [calls EXCEPT ![c].st = "raised", ![c].exc = "ConnectionResetError"]
    /\ UNCHANGED <<nextId, pending, handlers, started, reader, processVars, otherVars, stopVars>>

\* A timeout that also empties the pending table.
CallTimeout_ClearsPending(c) ==
    /\ calls[c].st = "wait"
    /\ calls[c].fut = "pending"
    /\ calls' = [calls EXCEPT ![c].st = "raised", ![c].exc = "TimeoutError",
                              ![c].fut = "cancelled"]
    /\ pending' = <<>>
    /\ UNCHANGED <<nextId, handlers, started, reader, processVars, otherVars, stopVars>>

\* wait_for(fut, timeout=self.timeout_seconds) times out: it cancels the
\* future and raises TimeoutError.  Nothing is removed from _pending.
CallTimeout(c) ==
    /\ calls[c].st = "wait"
    /\ calls[c].fut = "pending"
    /\ calls' = [calls EXCEPT ![c].st = "raised", ![c].exc = "TimeoutError",
                              ![c].fut = "cancelled"]
    /\ UNCHANGED <<nextId, pending, handlers, started, reader, processVars, otherVars, stopVars>>

\* ----------------------------------------------------------------- reader
\* The guard without its "not future.done()".
MaySet_IgnoresDone(d, key, cs) == key \in DOMAIN d

\* The reader's guard on a popped future: future is not None and not
\* future.done().
MaySet(d, key, cs) == key \in DOMAIN d /\ cs[d[key]].fut = "pending"

\* future.set_result(extract_result(message)), or set_exception(exc) when
\* extract_result raised, on the future of call: the future holds the
\* outcome, and a request() waiting on it in wait_for resumes with it.
SetFuture(call, m) ==
    LET o == extract_result(m)
        set == [call EXCEPT !.fut = IF o.k = "result" THEN "result" ELSE "exception",
                            !.out = o, !.by = m, !.nset = @ + 1]
    IN IF call.st = "wait" THEN Resumed(set) ELSE set

\* A reader that takes responses to answer the requests in the order they
\* were made: it resolves the pending call with the smallest id.
ReaderResolve_InOrder(d, key, cs, m) ==
    IF DOMAIN d # {}
    THEN LET k == CHOOSE x \in DOMAIN d : \A y \in DOMAIN d : x <= y
         IN IF cs[d[k]].fut = "pending"
            THEN [cs EXCEPT ![d[k]] = SetFuture(cs[d[k]], m)]
            ELSE cs
    ELSE cs

\* The calls after the reader handled response m, whose id converted to
\* key, with d the pending table before the pop.
ReaderResolve(d, key, cs, m) ==
    IF MaySet(d, key, cs)
    THEN [cs EXCEPT ![d[key]] = SetFuture(cs[d[key]], m)]
    ELSE cs

\* Every registered handler returns when called.
HandlersReturn == \A i \in 1..Len(handlers) : handlers[i] = "ok"

\* How one iteration of _reader_loop ends on message m: "next" when the loop
\* goes on to the next recv(), "failed" when an exception leaves the loop
\* and ends the task (json.loads on a bad line, .get on a value that is no
\* object, int() on the id, a handler that raises).
ReaderAfter(m) ==
    CASE m.line # "object" -> "failed"
      [] is_response(m) -> IF IntOf(m.id).ok THEN "next" ELSE "failed"
      [] is_notification(m) -> IF HandlersReturn THEN "next" ELSE "failed"
      [] OTHER -> "next"

\* One iteration of _reader_loop: recv() yields message m, which is handled
\* without suspension.
ReaderStep(m) ==
    /\ reader = "running"
    /\ proc
    /\ ~stdoutEOF
    /\ IF ReaderAfter(m) = "next"
       THEN UNCHANGED reader
       ELSE reader' = "failed"
    /\ IF m.line = "object" /\ is_response(m) /\ IntOf(m.id).ok
       THEN LET key == IntOf(m.id).v
            IN /\ pending' = DictPop(pending, key)
               /\ calls' = ReaderResolve(pending, key, calls, m)
       ELSE UNCHANGED <<pending, calls>>
    /\ UNCHANGED <<nextId, handlers, started, processVars, otherVars, stopVars>>

\* recv() reads a zero-length line: it raises RuntimeError("MCP transport
\* closed"), which ends the reader task.
ReaderEOF ==
    /\ reader = "running"
    /\ stdoutEOF
    /\ reader' = "failed"
    /\ UNCHANGED <<sessionVars, started, processVars, otherVars, stopVars>>

\* ------------------------------------------------------------ the child
\* The child reads what was written to its input.
ChildReads ==
    /\ child = "alive"
    /\ pipeFull
    /\ pipeFull' = FALSE
    /\ UNCHANGED <<sessionVars, started, reader, proc, child, stdin, stdoutEOF, isNT, otherVars,
                   stopVars>>

\* The child closes its output without exiting.
ChildClosesStdout ==
    /\ child = "alive"
    /\ ~stdoutEOF
    /\ stdoutEOF' = TRUE
    /\ UNCHANGED <<sessionVars, started, reader, proc, child, stdin, pipeFull, isNT, otherVars,
                   stopVars>>

\* The child exits of its own accord, at any moment.
ChildExits ==
    /\ child = "alive"
    /\ child' = "dead"
    /\ stdoutEOF' = TRUE
    /\ pipeFull' = FALSE
    /\ UNCHANGED <<sessionVars, started, reader, proc, stdin, isNT, otherVars, stopVars>>

\* --------------------------------------------------- StdioTransport.stop()
\* No stop() call is in progress: the model makes stop() calls one after
\* another.
NoStopRunning ==
    /\ sstop.pc \in {"idle", "returned", "raised"}
    /\ tstop.pc \in {"idle", "returned", "cancelled"}

\* McpSession.stop() as it stands once the transport.stop() it awaits has
\* reached tpc: it completes (a TimeoutError is suppressed) when
\* transport.stop() has returned or was cancelled by the 8 s timeout.
SessionStopAfter(caller, tpc) ==
    IF caller = "session" /\ tpc \in {"returned", "cancelled"}
    THEN [sstop EXCEPT !.pc = "returned"]
    ELSE sstop

\* A stop() that goes on to wait_closed() without closing the child's input.
TransportStopEnter_InputLeftOpen(caller) ==
    IF ~proc
    THEN /\ tstop' = [pc |-> "returned", caller |-> caller]
         /\ UNCHANGED stdin
    ELSE /\ tstop' = [pc |-> "wait_closed", caller |-> caller]
         /\ UNCHANGED stdin

\* StdioTransport.stop() up to its first suspension: it returns at once when
\* _process is None; otherwise it closes the child's input and awaits
\* stdin.wait_closed().
TransportStopEnter(caller) ==
    IF ~proc
    THEN /\ tstop' = [pc |-> "returned", caller |-> caller]
         /\ UNCHANGED stdin
    ELSE /\ tstop' = [pc |-> "wait_closed", caller |-> caller]
         /\ stdin' = "closed"

\* StdioTransport.stop() called on the transport itself.
TransportStop ==
    /\ NoStopRunning
    /\ nStops.transport < MaxStops
    /\ nStops' = [nStops EXCEPT !.transport = @ + 1]
    /\ TransportStopEnter("direct")
    /\ UNCHANGED <<sessionVars, started, reader, proc, child, pipeFull, stdoutEOF, isNT, otherVars,
                   sstop>>

\* stdin.wait_closed() ends (an exception it raises is suppressed): the
\* pipe's buffer was flushed, or the pipe broke.  Then, by the returncode:
\* on Windows taskkill is started; elsewhere the child is sent terminate();
\* a child that has exited needs neither, and _process is set to None.
TransportStopClosed ==
    /\ tstop.pc = "wait_closed"
    /\ ~pipeFull \/ child = "dead"
    /\ LET tpc == IF child = "dead" THEN "returned"
                  ELSE IF isNT THEN "taskkill" ELSE "wait_term"
       IN /\ tstop' = [tstop EXCEPT !.pc = tpc]
          /\ proc' = (child # "dead")
          /\ sstop' = SessionStopAfter(tstop.caller, tpc)
    /\ UNCHANGED <<sessionVars, started, reader, child, stdin, pipeFull, stdoutEOF, isNT, otherVars,
                   nStops>>

\* taskkill /T /F ends within its 5 s.  killed: it ended the child, so that
\* the returncode is set and stop() finishes; otherwise (it failed, raised
\* or timed out, all suppressed) the child is sent terminate().
TransportStopTaskkill(killed) ==
    /\ tstop.pc = "taskkill"
    /\ LET dead == killed \/ child = "dead"
           tpc == IF dead THEN "returned" ELSE "wait_term"
       IN /\ tstop' = [tstop EXCEPT !.pc = tpc]
          /\ child' = IF dead THEN "dead" ELSE child
          /\ stdoutEOF' = (stdoutEOF \/ dead)
          /\ pipeFull' = (pipeFull /\ ~dead)
          /\ proc' = ~dead
          /\ sstop' = SessionStopAfter(tstop.caller, tpc)
    /\ UNCHANGED <<sessionVars, started, reader, stdin, isNT, otherVars, nStops>>

\* wait_for(process.wait(), 5) after terminate() returns: the child has
\* exited.  _process is set to None.
TransportStopTerminated ==
    /\ tstop.pc = "wait_term"
    /\ child = "dead"
    /\ tstop' = [tstop EXCEPT !.pc = "returned"]
    /\ proc' = FALSE
    /\ sstop' = SessionStopAfter(tstop.caller, "returned")
    /\ UNCHANGED <<sessionVars, started, reader, child, stdin, pipeFull, stdoutEOF, isNT, otherVars,
                   nStops>>

\* wait_for(process.wait(), 5) after terminate() times out, or is cancelled
\* by the session's 8 s timeout (both suppressed): the returncode is still
\* None, so the child is sent kill(), which ends it.
TransportStopKill ==
    /\ tstop.pc = "wait_term"
    /\ child = "alive"
    /\ tstop' = [tstop EXCEPT !.pc = "wait_kill"]
    /\ child' = "dead"
    /\ stdoutEOF' = TRUE
    /\ pipeFull' = FALSE
    /\ UNCHANGED <<sessionVars, started, reader, proc, stdin, isNT, otherVars, sstop, nStops>>

\* wait_for(process.wait(), 5) after kill() returns or times out (suppressed).
\* _process is set to None.
TransportStopKilled ==
    /\ tstop.pc = "wait_kill"
    /\ tstop' = [tstop EXCEPT !.pc = "returned"]
    /\ proc' = FALSE
    /\ sstop' = SessionStopAfter(tstop.caller, "returned")
    /\ UNCHANGED <<sessionVars, started, reader, child, stdin, pipeFull, stdoutEOF, isNT, otherVars,
                   nStops>>

\* ------------------------------------------------------- McpSession.stop()
\* How the first block of McpSession.stop() leaves the reader task:
\* cancel() ends a running task, and awaiting it raises CancelledError,
\* which is suppressed; a task that is None, cancelled or failed is left as
\* it is.
ReaderAfterCancel(r) == IF r = "running" THEN "cancelled" ELSE r

\* Whether the first block of McpSession.stop() raises: awaiting a reader
\* task that ended with an exception re-raises that exception, which is
\* neither CancelledError nor TimeoutError.
StopAwaitRaises(r) == r = "failed"

\* McpSession.stop(): the reader task, if any, is cancelled and awaited for
\* at most 2 s; then transport.stop() is awaited for at most 8 s.
SessionStop ==
    /\ NoStopRunning
    /\ nStops.session < MaxStops
    /\ nStops' = [nStops EXCEPT !.session = @ + 1]
    /\ reader' = ReaderAfterCancel(reader)
    /\ IF StopAwaitRaises(reader)
       THEN /\ sstop' = [pc |-> "raised", invokedT |-> FALSE]
            /\ UNCHANGED <<tstop, stdin>>
       ELSE /\ TransportStopEnter("session")
            /\ sstop' = [pc |-> IF proc THEN "in_tstop" ELSE "returned",
                         invokedT |-> TRUE]
    /\ UNCHANGED <<sessionVars, started, proc, child, pipeFull, stdoutEOF, isNT, otherVars>>

\* wait_for(self.transport.stop(), timeout=8) times out while transport.stop()
\* is in wait_closed() or in the taskkill block, where a CancelledError is
\* not suppressed: transport.stop() is abandoned with _process still set,
\* and McpSession.stop() returns.
SessionStopTimeout ==
    /\ tstop.caller = "session"
    /\ tstop.pc \in {"wait_closed", "taskkill"}
    /\ tstop' = [tstop EXCEPT !.pc = "cancelled"]
    /\ sstop' = SessionStopAfter("session", "cancelled")
    /\ UNCHANGED <<sessionVars, started, reader, processVars, otherVars, nStops>>

\* ------------------------------------------------------------ specification
\* What the child does on its own.
ChildStep == ChildReads \/ ChildClosesStdout \/ ChildExits

\* Requests and the reader: any number of concurrent request() calls up to
\* MaxCalls against any stream of lines from the child, on a session that
\* is not being stopped and has no notification handler.
Next ==
    \/ SessionStart
    \/ OtherSessionRequest
    \/ \E full \in BOOLEAN : RequestStart(full)
    \/ \E c \in 1..Len(calls) : DrainReturns(c)
    \/ \E c \in 1..Len(calls) : DrainRaises(c)
    \/ \E c \in 1..Len(calls) : CallTimeout(c)
    \/ \E m \in Messages : ReaderStep(m)
    \/ ReaderEOF
    \/ ChildStep

Spec == Init /\ [][Next]_vars

\* The lines the child writes in the life-cycle specification: a response
\* to the first request, a response with a null id, a notification, and a
\* line that is no JSON.
StopMessages ==
    {ResultMsg(IntId(1), "ra"), ResultMsg(NullId, "ra"), NotificationMsg, GarbageLine}

\* The life cycle: start, handler registration, one request(), the reader,
\* and stop() calls on the session and on the transport, one after another,
\* on either platform.
StopNext ==
    \/ SessionStart
    \/ \E h \in {"ok", "raises"} : Len(handlers) < MaxHandlers /\ OnNotification(h)
    \/ \E full \in BOOLEAN : calls = <<>> /\ RequestStart(full)
    \/ \E c \in 1..Len(calls) : DrainReturns(c)
    \/ \E c \in 1..Len(calls) : DrainRaises(c)
    \/ \E c \in 1..Len(calls) : CallTimeout(c)
    \/ \E m \in StopMessages : ReaderStep(m)
    \/ ReaderEOF
    \/ ChildStep
    \/ TransportStop
    \/ TransportStopClosed
    \/ \E killed \in BOOLEAN : TransportStopTaskkill(killed)
    \/ TransportStopTerminated
    \/ TransportStopKill
    \/ TransportStopKilled
    \/ SessionStop
    \/ SessionStopTimeout

StopSpec == StopInit /\ [][StopNext]_vars

\* ---------------------------------------------------------- notifications
clientVars == <<sessionVars, started, reader, processVars, stopVars>>

\* The number of handlers the loop "for handler in self._notifications:
\* handler(method, params)" calls: all of them, or those up to and
\* including the first that raises, whose exception leaves the loop.
Called(hs) ==
    LET raising == {i \in 1..Len(hs) : hs[i] = "raises"}
    IN IF raising = {} THEN Len(hs)
       ELSE CHOOSE i \in raising : \A j \in raising : i <= j

\* One iteration of _reader_loop on a notification, the n-th the reader
\* receives, with the handler calls it makes recorded in call order.
ReaderNotification ==
    /\ reader = "running"
    /\ proc
    /\ ~stdoutEOF
    /\ arrived < MaxNotes
    /\ arrived' = arrived + 1
    /\ delivered' = delivered \o [i \in 1..Called(handlers) |-> <<arrived + 1, i>>]
    /\ IF ReaderAfter(NotificationMsg) = "next"
       THEN UNCHANGED reader
       ELSE reader' = "failed"
    /\ UNCHANGED <<sessionVars, started, processVars, stopVars, agentVars, unitVars>>

NotifyInit == Init

\* Lines that are JSON and are neither a response nor a notification: a
\* request from the server, a result without the version tag, an array.
OtherMessages == {ServerRequestMsg, UntaggedMsg, ArrayLine}

\* A started session on which handlers are registered, one request is made
\* and answered, and the child sends notifications.
NotifyNext ==
    \/ SessionStart
    \/ \E h \in {"ok", "raises"} : Len(handlers) < MaxListeners /\ OnNotification(h)
    \/ calls = <<>> /\ RequestStart(FALSE)
    \/ \E c \in 1..Len(calls) : DrainReturns(c)
    \/ ReaderStep(ResultMsg(IntId(1), "ra"))
    \/ \E m \in OtherMessages : ReaderStep(m)
    \/ ReaderNotification

NotifySpec == NotifyInit /\ [][NotifyNext]_vars

\* ------------------------------------------------------------- agent loop
\* The fields of the Observation dataclass.  None has a default, so the
\* generated __init__ requires each of them.
ObservationFields == {"dom", "console", "accessibility", "ocr_text"}

\* Observation(**given): the instance, or TypeError("missing 1 required
\* positional argument") when a field is not given.
Observation(given) ==
    IF ObservationFields \subseteq DOMAIN given
    THEN [ok |-> TRUE, exc |-> "none"]
    ELSE [ok |-> FALSE, exc |-> "TypeError"]

\* A run that leaves last_error as it is when the budget is used up.
BudgetError_NotRecorded(step_idx, max_steps, last_error) == last_error

\* "if step_idx >= self.max_steps: memory.last_error = 'Max steps reached'"
BudgetError(step_idx, max_steps, last_error) ==
    IF step_idx >= max_steps THEN "Max steps reached" ELSE last_error

\* The memory run() returns once its loop is left with step_idx: the budget
\* error is recorded, then success is kept only without a last_error.
RunEnd(mem, step_idx, max_steps) ==
    LET e == BudgetError(step_idx, max_steps, mem.last_error)
    IN [mem EXCEPT !.last_error = e, !.success = (e = None /\ mem.success)]

\* run() up to its first suspension: the memory is created and step_idx is
\* 0.  With a budget, the loop is entered, step_index is set and _observe
\* awaits the screenshot; without one, run() returns at once.
RunEnter ==
    /\ run.pc = "idle"
    /\ IF run.step_idx < agent.max_steps
       THEN /\ memory' = [AgentMemory EXCEPT !.step_index = run.step_idx]
            /\ run' = [run EXCEPT !.pc = "screenshot"]
       ELSE /\ memory' = RunEnd(AgentMemory, run.step_idx, agent.max_steps)
            /\ run' = [run EXCEPT !.pc = "returned"]
    /\ UNCHANGED <<agent, oracle, adapter, unitVars, notifyVars, clientVars>>

\* _observe: wait_for(adapter.screenshot(path), 10) ends; the DOM query is
\* awaited next.
ObserveScreenshot(c) ==
    /\ run.pc = "screenshot"
    /\ run' = [run EXCEPT !.shot = c, !.pc = "query_dom"]
    /\ UNCHANGED <<agent, oracle, memory, adapter, unitVars, notifyVars, clientVars>>

\* _observe: wait_for(adapter.query_dom("body"), 8) ends; dom is the payload
\* or the error placeholder.  query_dom clears the adapter's tool list and
\* records take_snapshot before it calls the tool; screenshot, read_console
\* and accessibility_tree call the session directly and record nothing.
ObserveDom(c) ==
    /\ run.pc = "query_dom"
    /\ run' = [run EXCEPT !.dom = c, !.pc = "read_console"]
    /\ adapter' = [adapter EXCEPT !.tools = Track(<<>>, "take_snapshot")]
    /\ UNCHANGED <<agent, oracle, memory, unitVars, notifyVars, clientVars>>

\* _observe: wait_for(adapter.read_console(), 8) ends.
ObserveConsole(c) ==
    /\ run.pc = "read_console"
    /\ run' = [run EXCEPT !.console = c, !.pc = "accessibility_tree"]
    /\ UNCHANGED <<agent, oracle, memory, adapter, unitVars, notifyVars, clientVars>>

\* _observe: wait_for(adapter.accessibility_tree(), 8) ends, and _observe
\* returns Observation(dom=..., console=..., accessibility=...).  The
\* constructor's exception leaves _observe and, as run() awaits _observe
\* outside any try, run().  No call of the constructor in the code gives
\* ocr_text, so the rest of the loop body (_build_state, the oracle, the
\* retry loop, the diff check) is run by no call of run().
ObserveAccessibility(c) ==
    /\ run.pc = "accessibility_tree"
    /\ LET o == Observation([dom |-> run.dom, console |-> run.console,
                             accessibility |-> c])
       IN run' = IF o.ok
                 THEN [run EXCEPT !.pc = "build_state"]
                 ELSE [run EXCEPT !.pc = "raised", !.exc = o.exc]
    /\ UNCHANGED <<agent, oracle, memory, adapter, unitVars, notifyVars, clientVars>>

\* An AgentLoop built with any budget and retry ceiling, and an oracle of
\* any behaviour.
AgentInit ==
    /\ Constructed
    /\ isNT = FALSE
    /\ NoUnits
    /\ \E ms \in 0..MaxSteps, rl \in 0..MaxRetryLimit,
          script \in [1..MaxSteps -> Decisions], acts \in ActOutcomes :
            /\ agent = NewAgentLoop(ms, rl)
            /\ oracle = [script |-> script, consulted |-> 0]
            /\ adapter = NewAdapter(acts)
    /\ run = [NoRun EXCEPT !.pc = "idle"]
    /\ memory = AgentMemory

AgentNext ==
    \/ RunEnter
    \/ \E c \in Captures : ObserveScreenshot(c)
    \/ \E c \in Captures : ObserveDom(c)
    \/ \E c \in Captures : ObserveConsole(c)
    \/ \E c \in Captures : ObserveAccessibility(c)

AgentSpec == AgentInit /\ [][AgentNext]_vars

\* ----------------------------------------------------------------- policy
\* The values an "action" member takes: the verbs the executor knows, the
\* legacy verbs, verbs it does not know, a verb in another case or padded
\* with blanks, the empty string, and null (None).
ActionSpellings ==
    {"navigate", "click", "type", "press", "wait", "wait_for_text", "query",
     "open", "fill", "press_key", "key", "keypress",
     "scroll", "hover", "done", "OPEN", " Click ", "", None}

\* str(x).strip().lower() on those values: str(None) is "None".
StripLower(x) ==
    CASE x = "OPEN" -> "open"
      [] x = " Click " -> "click"
      [] x = None -> "none"
      [] OTHER -> x

\* "not x" on an optional string: None and "" are falsy.
Falsy(x) == x \in {None, ""}

\* step.get(key, default) on a member that may be missing.
GetOr(has, v, default) == IF has THEN v ELSE default

\* to_browser_action(step), step having every member but perhaps "action".
to_browser_action(step) ==
    LET action == StripLower(GetOr(step.hasAction, step.action, ""))
        verb == CASE action = "navigate" /\ Falsy(step.url) ->
                       IF ~Falsy(step.selector) THEN "click" ELSE "wait"
                  [] action = "open" -> "navigate"
                  [] action = "fill" -> "type"
                  [] action \in {"press_key", "key", "keypress"} -> "press"
                  [] OTHER -> action
    IN BrowserAction(verb, step.selector, step.value, step.url, step.wait_event)

\* AgentLoop._decision_to_action(decision): the members are copied, "action"
\* defaulting to "wait", and the copy is normalized.
decision_to_action(decision) ==
    to_browser_action(
        [decision EXCEPT !.hasAction = TRUE,
                         !.action = GetOr(decision.hasAction, decision.action, "wait")])

PolicyInit ==
    /\ Constructed
    /\ isNT = FALSE
    /\ NoAgentLoop
    /\ retryCase = NoCase
    /\ resolveCase = NoResolveCase
    /\ exec = NoExec
    /\ resolver = NoResolver
    /\ \E has \in BOOLEAN, a \in ActionSpellings, sel \in {None, "", "#go"},
          v \in {None, "v"}, u \in {None, "", "https://e.x"},
          w \in {None, "Ready", "click"} :
            policyCase = [NoPolicyCase EXCEPT !.st = "args",
                                              !.decision = Decision(has, a, sel, v, u, w)]

\* The decision is normalized.
DecisionToAction ==
    /\ policyCase.st = "args"
    /\ policyCase' = [policyCase EXCEPT !.st = "applied",
                                        !.action = decision_to_action(policyCase.decision)]
    /\ UNCHANGED <<agentVars, notifyVars, clientVars, retryCase, resolveCase, exec, resolver>>

\* AgentPlanner._normalize_plan on one raw step of the plan: the verb is
\* str(raw.get("action") or "") stripped and in lower case; the legacy
\* verbs are renamed; a navigate without url becomes a click when there is
\* a selector and a wait when not; a press without value gets "Enter"; a
\* wait for the event "click" loses its event.
normalize_step(raw) ==
    LET given == GetOr(raw.hasAction, raw.action, None)
        action == IF Falsy(given) THEN "" ELSE StripLower(given)
        renamed == CASE action = "open" -> "navigate"
                     [] action \in {"press_key", "key", "keypress"} -> "press"
                     [] action = "fill" -> "type"
                     [] OTHER -> action
        verb == IF renamed = "navigate" /\ Falsy(raw.url)
                THEN IF ~Falsy(raw.selector) THEN "click" ELSE "wait"
                ELSE renamed
    IN [action |-> verb,
        selector |-> raw.selector,
        value |-> IF verb = "press" /\ Falsy(raw.value) THEN "Enter" ELSE raw.value,
        url |-> raw.url,
        wait_event |-> IF verb = "wait" /\ raw.wait_event = "click" THEN None
                       ELSE raw.wait_event]

\* The same raw step is given to to_browser_action and to the planner's
\* normalization.
NormalizeStep ==
    /\ policyCase.st = "args"
    /\ policyCase' = [policyCase EXCEPT !.st = "normalized",
                                        !.direct = to_browser_action(policyCase.decision),
                                        !.planned = normalize_step(policyCase.decision)]
    /\ UNCHANGED <<agentVars, notifyVars, clientVars, retryCase, resolveCase, exec, resolver>>

PolicyNext == DecisionToAction \/ NormalizeStep

PolicySpec == PolicyInit /\ [][PolicyNext]_vars

\* ---------------------------------------------------------- uid resolution
\* Number of lines of a snapshot.
MaxLines == 2

\* What the regular expressions and substring tests of _resolve_uid find in
\* a selector token (already stripped): uidForm, it is digits_digits; css,
\* _looks_like_css_selector (one of # . [ ] > : + ~ or a blank in it, or
\* only letters, digits, _ and - after a letter); roleSel, the role of a
\* whole "role:name" (None otherwise); roleLike, it starts with "role:";
\* text, the token without surrounding quotes, in lower case; letters, text
\* has a letter; button and link, the token has that word in it.
Token(spelled, uidForm, css, roleSel, roleLike, text, letters, button, link) ==
    [s |-> spelled, uidForm |-> uidForm, css |-> css, roleSel |-> roleSel,
     roleLike |-> roleLike, text |-> text, letters |-> letters, button |-> button,
     link |-> link]

Tokens ==
    {Token("7_7", TRUE, FALSE, None, FALSE, "7_7", FALSE, FALSE, FALSE),
     Token("#missing", FALSE, TRUE, None, FALSE, "#missing", TRUE, FALSE, FALSE),
     Token("Sign in", FALSE, TRUE, None, FALSE, "sign in", TRUE, FALSE, FALSE),
     Token("submit", FALSE, TRUE, None, FALSE, "submit", TRUE, FALSE, FALSE),
     Token("role:button", FALSE, TRUE, "button", TRUE, "role:button", TRUE, TRUE, FALSE),
     Token("role:tab", FALSE, TRUE, "tab", TRUE, "role:tab", TRUE, FALSE, FALSE),
     Token("'Login'", FALSE, FALSE, None, FALSE, "login", TRUE, FALSE, FALSE),
     Token("Pay!", FALSE, FALSE, None, FALSE, "pay!", TRUE, FALSE, FALSE),
     Token("'link'", FALSE, FALSE, None, FALSE, "link", TRUE, FALSE, TRUE),
     Token("?", FALSE, FALSE, None, FALSE, "?", FALSE, FALSE, FALSE),
     Token("", FALSE, FALSE, None, FALSE, "", FALSE, FALSE, FALSE)}

\* A line of the snapshot text: the identifier after "uid=" (None when the
\* line has none), the words of it that are roles, and the texts of the
\* tokens above that it contains, in lower case.
Line(uid, roles, has) == [uid |-> uid, roles |-> roles, has |-> has]

\* uid=1_1 button "Login" / uid=2_2 link "Pay!" / uid=3_3 textbox "Search?"
\* / button "Login" / uid=4_4 StaticText "Sign in"
Lines ==
    {Line("1_1", {"button"}, {"login", "button", ""}),
     Line("2_2", {"link"}, {"pay!", "link", ""}),
     Line("3_3", {"textbox"}, {"?", ""}),
     Line(None, {"button"}, {"login", "button", ""}),
     Line("4_4", {"statictext"}, {"sign in", ""})}

Snapshots == UNION {[1..n -> Lines] : n \in 0..MaxLines}

RoleLists == {<<"button", "link">>, <<"searchbox", "textbox", "textarea", "input">>, <<>>}

\* The identifier of the first line that has one and satisfies Match, or
\* None: the loops "for line in lines: uid = _extract_uid(line) ...".
FirstUid(lines, Match(_)) ==
    LET hits == {i \in 1..Len(lines) : lines[i].uid # None /\ Match(lines[i])}
    IN IF hits = {} THEN None
       ELSE lines[CHOOSE i \in hits : \A j \in hits : i <= j].uid

\* _find_first_uid_by_role(lines, role, text_match): the first line with an
\* identifier and the role as a word, and with the text in it when a text
\* is given.
find_first_uid_by_role(lines, role, text) ==
    LET Match(l) == role \in l.roles /\ (text # "" => text \in l.has)
    IN FirstUid(lines, Match)

\* _find_first_uid(lines)
find_first_uid(lines) ==
    LET Match(l) == TRUE
    IN FirstUid(lines, Match)

\* The first role of the list, from position i on, for which a line is
\* found: "for role in preferred_roles: uid = ...; if uid: return uid".
RECURSIVE FirstByRoles(_, _, _, _)
FirstByRoles(lines, roles, text, i) ==
    IF i > Len(roles) THEN None
    ELSE LET uid == find_first_uid_by_role(lines, roles[i], text)
         IN IF uid # None THEN uid ELSE FirstByRoles(lines, roles, text, i + 1)

Resolved(uid, tier) == [ok |-> TRUE, uid |-> uid, tier |-> tier]
ResolutionError(kind) == [ok |-> FALSE, uid |-> None, tier |-> kind]

\* _resolve_uid(selector, preferred_roles) on the lines of the snapshot it
\* takes: the identifier and the tier that gave it, or the RuntimeError.
resolve_uid(token, roles, lines) ==
    LET a == IF token.roleSel # None
             THEN find_first_uid_by_role(lines, token.roleSel, "") ELSE None
        b == IF token.text # "" /\ roles # <<>> /\ ~token.css
             THEN FirstByRoles(lines, roles, token.text, 1) ELSE None
        c == IF ~token.css THEN FirstByRoles(lines, roles, "", 1) ELSE None
        InLine(l) == token.text \in l.has
        d == IF token.text # "" /\ token.letters /\ ~token.roleLike /\ ~token.css
             THEN FirstUid(lines, InLine) ELSE None
        button == IF ~token.css /\ token.button
                  THEN find_first_uid_by_role(lines, "button", "") ELSE None
        link == IF ~token.css /\ token.link
                THEN find_first_uid_by_role(lines, "link", "") ELSE None
        f == find_first_uid(lines)
    IN CASE token.uidForm -> Resolved(token.s, "uid")
         [] ~token.uidForm /\ a # None -> Resolved(a, "a")
         [] ~token.uidForm /\ a = None /\ b # None -> Resolved(b, "b")
         [] ~token.uidForm /\ a = None /\ b = None /\ c # None -> Resolved(c, "c")
         [] ~token.uidForm /\ a = None /\ b = None /\ c = None /\ d # None ->
                Resolved(d, "d")
         [] OTHER ->
                IF button # None THEN Resolved(button, "e")
                ELSE IF link # None THEN Resolved(link, "e")
                ELSE IF token.css THEN ResolutionError("css-like")
                ELSE IF f # None THEN Resolved(f, "f")
                ELSE ResolutionError("unresolved")

ResolveInit ==
    /\ Constructed
    /\ isNT = FALSE
    /\ NoAgentLoop
    /\ retryCase = NoCase
    /\ policyCase = NoPolicyCase
    /\ exec = NoExec
    /\ resolver = NoResolver
    /\ \E token \in Tokens, roles \in RoleLists, lines \in Snapshots :
            resolveCase = [NoResolveCase EXCEPT !.st = "args", !.token = token,
                                                !.roles = roles, !.lines = lines]

\* _resolve_uid runs on the snapshot.
ResolveUid ==
    /\ resolveCase.st = "args"
    /\ resolveCase' =
         [resolveCase EXCEPT
            !.st = "applied",
            !.result = resolve_uid(resolveCase.token, resolveCase.roles, resolveCase.lines)]
    /\ UNCHANGED <<agentVars, notifyVars, clientVars, retryCase, policyCase, exec, resolver>>

ResolveNext == ResolveUid

ResolveSpec == ResolveInit /\ [][ResolveNext]_vars

\* ------------------------------------------------------ click and type_text
\* The deadline of click's script loop, counted in sleeps of the loop (the
\* code has 6 s and sleeps of 0.25 s).
ClickDeadline == 2

\* What evaluate_script returns: a value that is no object; the script's
\* {"ok":true,...}; its miss {"ok":false,"reason":"no clickable element
\* found"} ("No editable element found" for type_text); another failure of
\* the script; isError with and without the text of the miss; a miss whose
\* JSON is spelled with blanks after the colons; a top-level ok false; and
\* an ok result whose clicked text holds the words of the miss.
ScriptResults ==
    {ScriptRaw(FALSE, FALSE, "none", FALSE, FALSE, FALSE, FALSE),
     ScriptRaw(TRUE, FALSE, "none", FALSE, FALSE, TRUE, FALSE),
     ScriptRaw(TRUE, FALSE, "none", FALSE, TRUE, FALSE, TRUE),
     ScriptRaw(TRUE, FALSE, "none", FALSE, TRUE, FALSE, FALSE),
     ScriptRaw(TRUE, TRUE, "none", FALSE, FALSE, FALSE, FALSE),
     ScriptRaw(TRUE, TRUE, "none", FALSE, FALSE, FALSE, TRUE),
     ScriptRaw(TRUE, FALSE, "none", FALSE, FALSE, FALSE, TRUE),
     ScriptRaw(TRUE, FALSE, "ok", FALSE, FALSE, FALSE, FALSE),
     ScriptRaw(TRUE, FALSE, "status", TRUE, TRUE, FALSE, TRUE),
     ScriptRaw(TRUE, FALSE, "none", FALSE, FALSE, TRUE, TRUE)}

\* DevToolsAdapter._script_result_ok(raw)
script_result_ok(raw) ==
    IF raw.member # "none" THEN raw.truth
    ELSE IF raw.textFalse THEN FALSE
    ELSE IF raw.textTrue THEN TRUE
    ELSE TRUE

\* DevToolsAdapter._is_transient_click_miss(raw)
is_transient_click_miss(raw) == raw.miss

\* click and type_text return the script's result as it is when it is no
\* object, or when it has no isError true and _script_result_ok accepts it.
ScriptReturned(raw) == ~raw.dict \/ (~raw.isError /\ script_result_ok(raw))

\* The tool of the structural path and the roles _resolve_uid is given.
StructuralTool(method) == IF method = "click" THEN "click" ELSE "fill"
PreferredRoles(method) ==
    IF method = "click" THEN <<"button", "link">>
    ELSE <<"searchbox", "textbox", "textarea", "input">>

\* The selectors given to click and type_text, and the snapshots taken.
ResolverTokens == {t \in Tokens : t.s \in {"7_7", "#missing", "'Login'"}}
ResolverSnapshots == {lines \in Snapshots : Len(lines) <= 1}

\* _call_and_track(tool) is entered: the call is logged.
Calls(r, tool) == [r EXCEPT !.log = Append(@, tool)]

\* The structural path up to its first suspension: _resolve_uid returns a
\* token of the form digits_digits at once and the tool is called on it;
\* for another token it takes a snapshot.
Structural(r) ==
    IF r.token.uidForm
    THEN [Calls(r, StructuralTool(r.method)) EXCEPT !.pc = "tool"]
    ELSE [Calls(r, "take_snapshot") EXCEPT !.pc = "snapshot"]

\* How the adapter's list follows the resolver's log from r to q.
Tracked(tools, r, q) ==
    IF Len(q.log) > Len(r.log) THEN Track(tools, q.log[Len(q.log)]) ELSE tools

\* click(selector) or type_text(selector, text) up to its first suspension:
\* the list of tools is cleared and the script is evaluated.
ResolverEnter(method, token) ==
    /\ resolver.pc = "idle"
    /\ resolver' = [Calls(resolver, "evaluate_script") EXCEPT
                       !.pc = "script", !.method = method, !.token = token]
    /\ adapter' = [adapter EXCEPT !.tools = Track(<<>>, "evaluate_script")]
    /\ UNCHANGED <<agent, oracle, run, memory, notifyVars, clientVars, retryCase,
                   policyCase, resolveCase, exec>>

\* evaluate_script returns raw after took units of time.  The result is
\* returned when it is no object or is accepted; type_text goes on to the
\* structural path; click does so when raw is no transient miss, and
\* otherwise sleeps.
ScriptReturns(raw, took) ==
    /\ resolver.pc = "script"
    /\ LET r == [resolver EXCEPT !.scripts = Append(@, raw),
                                 !.time = IF @ + took > ClickDeadline
                                          THEN ClickDeadline + 1 ELSE @ + took]
           q == IF ScriptReturned(raw)
                THEN [r EXCEPT !.pc = "returned",
                               !.result = [@ EXCEPT !.source = "script", !.script = raw]]
                ELSE IF r.method = "click" /\ is_transient_click_miss(raw)
                THEN [r EXCEPT !.pc = "sleep"]
                ELSE Structural(r)
       IN /\ resolver' = q
          /\ adapter' = [adapter EXCEPT !.tools = Tracked(@, r, q)]
    /\ UNCHANGED <<agent, oracle, run, memory, notifyVars, clientVars, retryCase,
                   policyCase, resolveCase, exec>>

\* A loop that takes the structural path after its first sleep.
ScriptSlept_GivesUp ==
    /\ resolver.pc = "sleep"
    /\ LET r == [resolver EXCEPT !.time = @ + 1]
           q == Structural(r)
       IN /\ resolver' = q
          /\ adapter' = [adapter EXCEPT !.tools = Tracked(@, r, q)]
    /\ UNCHANGED <<agent, oracle, run, memory, notifyVars, clientVars, retryCase,
                   policyCase, resolveCase, exec>>

\* asyncio.sleep(0.25) of click's loop ends: the script is evaluated again
\* when the deadline has not passed, and the structural path is taken when
\* it has.
ScriptSlept ==
    /\ resolver.pc = "sleep"
    /\ LET r == [resolver EXCEPT !.time = @ + 1]
           q == IF r.time <= ClickDeadline
                THEN [Calls(r, "evaluate_script") EXCEPT !.pc = "script"]
                ELSE Structural(r)
       IN /\ resolver' = q
          /\ adapter' = [adapter EXCEPT !.tools = Tracked(@, r, q)]
    /\ UNCHANGED <<agent, oracle, run, memory, notifyVars, clientVars, retryCase,
                   policyCase, resolveCase, exec>>

\* take_snapshot returns the lines: _resolve_uid finds an identifier and the
\* tool is called on it, or it raises and so does the method.
SnapshotReturns(lines) ==
    /\ resolver.pc = "snapshot"
    /\ LET found == resolve_uid(resolver.token, PreferredRoles(resolver.method), lines)
           q == IF found.ok
                THEN [Calls(resolver, StructuralTool(resolver.method)) EXCEPT !.pc = "tool"]
                ELSE [resolver EXCEPT !.pc = "raised"]
       IN /\ resolver' = q
          /\ adapter' = [adapter EXCEPT !.tools = Tracked(@, resolver, q)]
    /\ UNCHANGED <<agent, oracle, run, memory, notifyVars, clientVars, retryCase,
                   policyCase, resolveCase, exec>>

\* The click or fill tool returns: its payload is the method's result.
ToolReturns(payload) ==
    /\ resolver.pc = "tool"
    /\ resolver' = [resolver EXCEPT !.pc = "returned",
                                    !.result = [@ EXCEPT !.source = "tool", !.tool = payload]]
    /\ UNCHANGED <<agentVars, notifyVars, clientVars, retryCase, policyCase,
                   resolveCase, exec>>

\* A tool call raises (its timeout, a JSON-RPC error): so does the method.
ResolverCallRaises ==
    /\ resolver.pc \in {"script", "snapshot", "tool"}
    /\ resolver' = [resolver EXCEPT !.pc = "raised"]
    /\ UNCHANGED <<agentVars, notifyVars, clientVars, retryCase, policyCase,
                   resolveCase, exec>>

ClickInit ==
    /\ Constructed
    /\ isNT = FALSE
    /\ NoAgentLoop
    /\ retryCase = NoCase
    /\ policyCase = NoPolicyCase
    /\ resolveCase = NoResolveCase
    /\ exec = NoExec
    /\ resolver = [NoResolver EXCEPT !.pc = "idle"]

\* One call of click or of type_text.
ClickNext ==
    \/ \E method \in {"click", "type_text"}, token \in ResolverTokens :
            ResolverEnter(method, token)
    \/ \E raw \in ScriptResults, took \in 0..1 : ScriptReturns(raw, took)
    \/ ScriptSlept
    \/ \E lines \in ResolverSnapshots : SnapshotReturns(lines)
    \/ \E payload \in {"ok", "isError"} : ToolReturns(payload)
    \/ ResolverCallRaises

ClickSpec == ClickInit /\ [][ClickNext]_vars

\* -------------------------------------------------------- action execution
\* Number of tool calls an adapter method that polls or falls back makes.
MaxToolCalls == 3

\* d.get(k): the member of an object, None when it has none.
DictGet(d, k) ==
    LET at == {i \in 1..Len(d.items) : d.items[i][1] = k}
    IN IF d.t # "dict" \/ at = {} THEN JNone ELSE d.items[CHOOSE i \in at : TRUE][2]

\* "x is True", "x is False"
IsTrue(v) == v.t = "bool" /\ v.b
IsFalse(v) == v.t = "bool" /\ ~v.b

\* The texts a payload carries are "not found", "Timeout 5000ms exceeded",
\* "Timeout waiting for page to be ready", "evaluate_script failed while
\* waiting for page readiness", "body detected before full readyState",
\* "clicked" and "".  _looks_like_failure_text finds one of its words
\* (error, failed, timeout, not found, ...) in the first four;
\* _looks_like_timeout_error finds its words (timeout, timed out) in the
\* second and the third.
looks_like_failure_text(text) ==
    text \in {"not found", "Timeout 5000ms exceeded", "Timeout waiting for page to be ready",
              "evaluate_script failed while waiting for page readiness"}
looks_like_timeout_error(text) ==
    text \in {"Timeout 5000ms exceeded", "Timeout waiting for page to be ready"}

\* The first x of seq from position i on for which F(x) is not None, or
\* None: "for x in ...: r = f(x); if r: return r".
RECURSIVE FirstSome(_, _, _)
FirstSome(seq, F(_), i) ==
    IF i > Len(seq) THEN None
    ELSE IF F(seq[i]) # None THEN F(seq[i]) ELSE FirstSome(seq, F, i + 1)

\* The text of a content chunk {"type": "text", "text": ...}, None for
\* another chunk or a blank text.
ChunkText(chunk) ==
    IF chunk.t = "dict" /\ DictGet(chunk, "type") = JStr("text")
          /\ DictGet(chunk, "text").s # ""
    THEN DictGet(chunk, "text").s ELSE None

\* AgentLoop._extract_mcp_error(raw)
extract_mcp_error(raw) ==
    LET content == DictGet(raw, "content")
        text == IF content.t = "list" THEN FirstSome(content.items, ChunkText, 1) ELSE None
    IN IF text # None THEN text ELSE "MCP tool returned an error"

\* AgentLoop._contains_negative_signal(raw)
RECURSIVE contains_negative_signal(_)
contains_negative_signal(raw) ==
    CASE raw.t = "dict" ->
           \/ \E key \in {"ok", "success", "status"} : IsFalse(DictGet(raw, key))
           \/ \E i \in 1..Len(raw.items) : contains_negative_signal(raw.items[i][2])
      [] raw.t = "list" ->
           \E i \in 1..Len(raw.items) : contains_negative_signal(raw.items[i])
      [] OTHER -> FALSE

\* AgentLoop._extract_failure_reason(raw): the first text that looks like a
\* failure, under reason, error, message or details, then in the content
\* chunks, then in the members' values; None when there is none.
RECURSIVE extract_failure_reason(_)
extract_failure_reason(raw) ==
    LET Named(key) ==
            IF DictGet(raw, key).t = "str" /\ looks_like_failure_text(DictGet(raw, key).s)
            THEN DictGet(raw, key).s ELSE None
        FailureChunk(chunk) ==
            IF ChunkText(chunk) # None /\ looks_like_failure_text(ChunkText(chunk))
            THEN ChunkText(chunk) ELSE None
        Member(item) == extract_failure_reason(item[2])
        Item(item) == extract_failure_reason(item)
        named == FirstSome(<<"reason", "error", "message", "details">>, Named, 1)
        content == DictGet(raw, "content")
        chunk == IF content.t = "list" THEN FirstSome(content.items, FailureChunk, 1)
                 ELSE None
    IN CASE raw.t = "dict" ->
              IF named # None THEN named
              ELSE IF chunk # None THEN chunk
              ELSE FirstSome(raw.items, Member, 1)
         [] raw.t = "list" -> FirstSome(raw.items, Item, 1)
         [] OTHER -> None

\* AgentLoop._extract_business_failure(raw)
extract_business_failure(raw) ==
    IF extract_failure_reason(raw) # None THEN extract_failure_reason(raw)
    ELSE IF contains_negative_signal(raw) THEN "Action failed based on tool result"
    ELSE None

\* _execute_action once raw and tools_used are known: a smart_fallback
\* member with ok true is a success; isError true is a failure with the MCP
\* error text; a business failure is a failure with its reason; anything
\* else is a success.
attempt_result(raw, tools_used) ==
    IF IsTrue(DictGet(DictGet(raw, "smart_fallback"), "ok"))
    THEN ActionOutcome(TRUE, <<>>, raw, tools_used)
    ELSE IF IsTrue(DictGet(raw, "isError"))
    THEN ActionOutcome(FALSE, <<extract_mcp_error(raw)>>, raw, tools_used)
    ELSE IF extract_business_failure(raw) # None
    THEN ActionOutcome(FALSE, <<extract_business_failure(raw)>>, raw, tools_used)
    ELSE ActionOutcome(TRUE, <<>>, raw, tools_used)

\* The exceptions an adapter method lets through: the timeout of the
\* session's request (its str() is empty), a JSON-RPC error, the failure of
\* _resolve_uid.
Exceptions ==
    {[type |-> "TimeoutError", msg |-> ""],
     [type |-> "JsonRpcError", msg |-> "JSON-RPC error 7: msg"],
     [type |-> "RuntimeError", msg |-> "Could not resolve MCP uid"],
     [type |-> "ValueError", msg |-> "invalid literal for int()"]}

\* A reason made of the exception's message alone.
failure_reason_MessageOnly(exc) == <<exc.msg>>

\* The except branch of _execute_action: "Type: message", or the type's
\* name alone when the message is empty.
failure_reason(exc) ==
    IF exc.msg # "" THEN <<exc.type, ": ", exc.msg>> ELSE <<exc.type>>

\* {"content": [{"type": "text", "text": text}]}
Content(text) == <<"content", JList(<<JDict(<<<<"type", JStr("text")>>, <<"text", JStr(text)>>>>)>>)>>

\* The payloads an adapter method returns: results without and with text,
\* isError with and without text, a false under ok, success or status at
\* depth one, two and three and inside an array, values that are no boolean
\* false, and payloads with a smart_fallback member.
Payloads ==
    {JStr("clicked"),
     JDict(<<<<"ok", JBool(TRUE)>>>>),
     JDict(<<Content("clicked")>>),
     JDict(<<Content("not found")>>),
     JDict(<<<<"isError", JBool(TRUE)>>>>),
     JDict(<<<<"isError", JBool(TRUE)>>, Content("Timeout 5000ms exceeded")>>),
     JDict(<<<<"isError", JBool(TRUE)>>, Content("clicked")>>),
     JDict(<<<<"isError", JStr("true")>>>>),
     JDict(<<<<"ok", JBool(FALSE)>>>>),
     JDict(<<<<"success", JBool(FALSE)>>>>),
     JDict(<<<<"status", JBool(FALSE)>>>>),
     JDict(<<<<"status", JNum>>>>),
     JDict(<<<<"ok", JStr("false")>>>>),
     JDict(<<<<"result", JDict(<<<<"ok", JBool(FALSE)>>>>)>>>>),
     JDict(<<<<"result", JList(<<JDict(<<<<"status", JBool(FALSE)>>>>)>>)>>>>),
     JDict(<<<<"result", JDict(<<<<"data", JDict(<<<<"success", JBool(FALSE)>>>>)>>>>)>>>>),
     JList(<<JDict(<<<<"ok", JBool(FALSE)>>>>)>>),
     JDict(<<<<"smart_fallback", JDict(<<<<"ok", JBool(TRUE)>>>>)>>>>),
     JDict(<<<<"isError", JBool(TRUE)>>,
             <<"smart_fallback", JDict(<<<<"ok", JBool(TRUE)>>>>)>>>>),
     JDict(<<<<"ok", JBool(FALSE)>>,
             <<"smart_fallback", JDict(<<<<"ok", JBool(TRUE)>>>>)>>>>)}

\* What smart_wait_fallback returns: it confirmed the condition or not.
Fallbacks ==
    {JDict(<<<<"ok", JBool(TRUE)>>, <<"reason", JStr("clicked")>>>>),
     JDict(<<<<"ok", JBool(FALSE)>>, <<"reason", JStr("not found")>>>>)}

\* The actions _execute_action is given: each verb with and without what it
\* needs, a wait with a condition, with a delay, with a value that is no
\* number and with nothing, and a verb that is not supported.
ExecActions ==
    {BrowserAction("navigate", None, None, "https://e.x", None),
     BrowserAction("open", None, None, "https://e.x", None),
     BrowserAction("navigate", None, None, None, None),
     BrowserAction("click", "#missing", None, None, None),
     BrowserAction("click", None, None, None, None),
     BrowserAction("type", "#q", "v", None, None),
     BrowserAction("type", None, "v", None, None),
     BrowserAction("press", None, None, None, None),
     BrowserAction("wait", None, None, None, "Ready"),
     BrowserAction("wait", None, "250", None, None),
     BrowserAction("wait", None, "v", None, None),
     BrowserAction("wait_for_text", None, None, None, None),
     BrowserAction("query", None, None, None, None),
     BrowserAction("scroll", None, None, None, None)}

\* A dispatch that calls click and type_text without a selector.
MethodFor_SelectorNotNeeded(action) ==
    CASE action.action_type \in {"open", "navigate"} /\ ~Falsy(action.url) -> "open_url"
      [] action.action_type = "click" -> "click"
      [] action.action_type = "type" -> "type_text"
      [] action.action_type = "press" -> "press_key"
      [] action.action_type \in {"wait", "wait_for_text"} ->
            IF ~Falsy(action.wait_event) THEN "wait_for" ELSE "sleep"
      [] action.action_type = "query" -> "query_dom"
      [] OTHER -> "none"

\* The adapter method _execute_action calls for an action: "sleep" for a
\* wait without a condition, "none" for an action it does not support.
MethodFor(action) ==
    CASE action.action_type \in {"open", "navigate"} /\ ~Falsy(action.url) -> "open_url"
      [] action.action_type = "click" /\ ~Falsy(action.selector) -> "click"
      [] action.action_type = "type" /\ ~Falsy(action.selector) -> "type_text"
      [] action.action_type = "press" -> "press_key"
      [] action.action_type \in {"wait", "wait_for_text"} ->
            IF ~Falsy(action.wait_event) THEN "wait_for" ELSE "sleep"
      [] action.action_type = "query" -> "query_dom"
      [] OTHER -> "none"

\* The tools an adapter method calls through _call_and_track.
ToolsOf(method) ==
    CASE method = "open_url" -> {"navigate_page", "evaluate_script"}
      [] method = "click" -> {"evaluate_script", "take_snapshot", "click"}
      [] method = "type_text" -> {"evaluate_script", "take_snapshot", "fill"}
      [] method = "press_key" -> {"press_key"}
      [] method = "wait_for" -> {"wait_for"}
      [] method = "query_dom" -> {"take_snapshot"}
      [] method = "smart_wait_fallback" -> {"evaluate_script", "take_snapshot"}
      [] method = "get_clickable_alternatives" -> {"take_snapshot"}
      [] OTHER -> {}

\* The first tool a method calls, and the methods that call one tool once.
FirstTool(method) ==
    CASE method = "open_url" -> "navigate_page"
      [] method \in {"click", "type_text", "smart_wait_fallback"} -> "evaluate_script"
      [] method = "press_key" -> "press_key"
      [] method = "wait_for" -> "wait_for"
      [] OTHER -> "take_snapshot"
SingleCall == {"open_url", "press_key", "wait_for", "query_dom", "get_clickable_alternatives"}

\* What a readiness probe (evaluate_script) shows: the document ready with
\* its body, the body of a document still loading, a document without
\* body, an error of the tool, or nothing that can be read.
Probes == {"ready", "body", "loading", "isError", "unreadable"}

\* What wait_until_page_ready returns: a probe showed the document ready;
\* at the deadline the body was the last thing seen; the time ran out; a
\* probe ended in isError.
PageReady(outcome) ==
    CASE outcome = "ready" ->
           JDict(<<<<"ok", JBool(TRUE)>>, <<"readyState", JStr("complete")>>,
                   <<"hasBody", JBool(TRUE)>>, <<"href", JStr("https://e.x")>>>>)
      [] outcome = "body" ->
           JDict(<<<<"ok", JBool(TRUE)>>, <<"readyState", JStr("loading")>>,
                   <<"hasBody", JBool(TRUE)>>, <<"href", JStr("https://e.x")>>,
                   <<"reason", JStr("body detected before full readyState")>>>>)
      [] outcome = "timeout" ->
           JDict(<<<<"ok", JBool(FALSE)>>,
                   <<"reason", JStr("Timeout waiting for page to be ready")>>,
                   <<"readyState", JStr("loading")>>, <<"hasBody", JBool(FALSE)>>,
                   <<"href", JStr("")>>>>)
      [] OTHER ->
           JDict(<<<<"ok", JBool(FALSE)>>,
                   <<"reason", JStr("evaluate_script failed while waiting for page readiness")>>,
                   <<"raw", JDict(<<<<"isError", JBool(TRUE)>>>>)>>>>)

\* What open_url returns once the page's readiness is known: the readiness
\* when it is not ok, else the navigation's payload and the readiness.
open_url(raw, readiness) ==
    IF IsFalse(DictGet(readiness, "ok")) THEN readiness
    ELSE JDict(<<<<"navigate", raw>>, <<"page_ready", readiness>>>>)

\* int(action.value or "1500"): the delay of a plain wait is a number, or
\* int() raises ValueError.
DelayIsNumber(value) == value \in {None, "", "250"}

\* _execute_action returns result: get_tools_used has handed over the
\* adapter's list and cleared it.
Returns(e, raw, outcome) ==
    [e EXCEPT !.pc = "returned", !.raw = raw, !.result = outcome]

\* _observe's adapter.query_dom("body") before an action is executed.
ExecObserved ==
    /\ exec.pc = "idle"
    /\ adapter.tools = <<>>
    /\ adapter' = [adapter EXCEPT !.tools = Track(<<>>, "take_snapshot")]
    /\ UNCHANGED <<exec, agent, oracle, run, memory, notifyVars, clientVars,
                   retryCase, policyCase, resolveCase, resolver>>

\* _execute_action(action) up to its first suspension.  An adapter method
\* that acts starts by clearing the adapter's list; a plain wait sleeps, or
\* raises on a value that is no number; an action that is not supported
\* returns at once.  left: the adapter's list when the call began.
ExecEnter(action) ==
    /\ exec.pc = "idle"
    /\ LET method == MethodFor(action)
           e == [exec EXCEPT !.action = action, !.method = method, !.left = adapter.tools]
       IN CASE method = "none" ->
                 /\ exec' = Returns(e, JNone,
                        ActionOutcome(FALSE, <<"Unsupported action: ", action.action_type>>,
                                      JNone, adapter.tools))
                 /\ adapter' = [adapter EXCEPT !.tools = <<>>]
            [] method = "sleep" /\ DelayIsNumber(action.value) ->
                 /\ exec' = [e EXCEPT !.pc = "sleep"]
                 /\ UNCHANGED adapter
            [] method = "sleep" /\ ~DelayIsNumber(action.value) ->
                 LET exc == [type |-> "ValueError", msg |-> "invalid literal for int()"]
                 IN /\ exec' = Returns([e EXCEPT !.exc = exc], JNone,
                           ActionOutcome(FALSE, failure_reason(exc), JNone, adapter.tools))
                    /\ adapter' = [adapter EXCEPT !.tools = <<>>]
            [] OTHER ->
                 /\ exec' = [e EXCEPT !.pc = "adapter"]
                 /\ adapter' = [adapter EXCEPT !.tools = <<>>]
    /\ UNCHANGED <<agent, oracle, run, memory, notifyVars, clientVars, retryCase,
                   policyCase, resolveCase, resolver>>

\* asyncio.sleep of a plain wait ends: raw is {"slept_ms": delay_ms}.
ExecSlept ==
    /\ exec.pc = "sleep"
    /\ LET raw == JDict(<<<<"slept_ms", JNum>>>>)
       IN exec' = Returns(exec, raw, attempt_result(raw, adapter.tools))
    /\ adapter' = [adapter EXCEPT !.tools = <<>>]
    /\ UNCHANGED <<agent, oracle, run, memory, notifyVars, clientVars, retryCase,
                   policyCase, resolveCase, resolver>>

\* The adapter method that is running calls a tool: _call_and_track records
\* the name, then calls the session.  Which of its tools a method calls
\* next is left open, but for its first.
ExecToolCall(tool) ==
    /\ exec.pc \in {"adapter", "smart_wait_fallback", "get_clickable_alternatives"}
    /\ LET method == IF exec.pc = "adapter" THEN exec.method ELSE exec.pc
       IN /\ tool \in ToolsOf(method)
          /\ exec.called = 0 => tool = FirstTool(method)
          /\ method \in SingleCall => exec.called = 0
    /\ exec.called < MaxToolCalls
    /\ adapter' = [adapter EXCEPT !.tools = Track(adapter.tools, tool)]
    /\ exec' = [exec EXCEPT !.invoked = Append(@, tool), !.called = @ + 1]
    /\ UNCHANGED <<agent, oracle, run, memory, notifyVars, clientVars, retryCase,
                   policyCase, resolveCase, resolver>>

\* An adapter method other than open_url returns the payload of its last
\* tool.  A click that ended in isError asks for alternatives, a wait_for
\* that ended in a timeout-shaped isError asks the smart-wait fallback;
\* otherwise the outcome is made.
ExecAdapterReturns(raw) ==
    /\ exec.pc = "adapter"
    /\ exec.called >= 1
    /\ exec.method # "open_url"
    /\ IF exec.method = "click" /\ IsTrue(DictGet(raw, "isError"))
       THEN /\ exec' = [exec EXCEPT !.pc = "get_clickable_alternatives", !.raw = raw,
                                    !.payload = raw, !.called = 0]
            /\ UNCHANGED adapter
       ELSE IF /\ exec.method = "wait_for"
               /\ IsTrue(DictGet(raw, "isError"))
               /\ looks_like_timeout_error(extract_mcp_error(raw))
       THEN /\ exec' = [exec EXCEPT !.pc = "smart_wait_fallback", !.raw = raw,
                                    !.payload = raw, !.called = 0]
            /\ UNCHANGED adapter
       ELSE /\ exec' = Returns([exec EXCEPT !.payload = raw], raw,
                               attempt_result(raw, adapter.tools))
            /\ adapter' = [adapter EXCEPT !.tools = <<>>]
    /\ UNCHANGED <<agent, oracle, run, memory, notifyVars, clientVars, retryCase,
                   policyCase, resolveCase, resolver>>

\* navigate_page returns raw to open_url: an isError is returned as it is;
\* otherwise wait_until_page_ready makes its first probe.
ExecNavigated(raw) ==
    /\ exec.pc = "adapter"
    /\ exec.called >= 1
    /\ exec.method = "open_url"
    /\ IF IsTrue(DictGet(raw, "isError"))
       THEN /\ exec' = Returns([exec EXCEPT !.payload = raw], raw,
                               attempt_result(raw, adapter.tools))
            /\ adapter' = [adapter EXCEPT !.tools = <<>>]
       ELSE /\ exec' = [exec EXCEPT !.pc = "page_ready", !.payload = raw, !.called = 1,
                                    !.invoked = Append(@, "evaluate_script")]
            /\ adapter' = [adapter EXCEPT !.tools = Track(@, "evaluate_script")]
    /\ UNCHANGED <<agent, oracle, run, memory, notifyVars, clientVars, retryCase,
                   policyCase, resolveCase, resolver>>

\* A readiness probe returns.  An isError ends the waiting with a failure,
\* a ready document with its body ends it with ok; otherwise what was seen
\* of the body is kept and, after a sleep, another probe is made, or, when
\* the deadline has passed (late), the waiting ends: ok if the body was the
\* last thing seen, the timeout if not.  open_url returns and the outcome
\* is made.
ExecProbed(probe, late) ==
    /\ exec.pc = "page_ready"
    /\ LET hasBody == IF probe = "unreadable" THEN exec.hasBody ELSE probe = "body"
           over == late \/ exec.called >= MaxToolCalls
           outcome == CASE probe = "isError" -> "probe_failed"
                        [] probe = "ready" -> "ready"
                        [] OTHER -> IF hasBody THEN "body" ELSE "timeout"
           raw == open_url(exec.payload, PageReady(outcome))
       IN IF probe \in {"isError", "ready"} \/ over
          THEN /\ exec' = Returns([exec EXCEPT !.hasBody = hasBody, !.readiness = outcome],
                                  raw, attempt_result(raw, adapter.tools))
               /\ adapter' = [adapter EXCEPT !.tools = <<>>]
          ELSE /\ exec' = [exec EXCEPT !.hasBody = hasBody, !.called = @ + 1,
                                       !.invoked = Append(@, "evaluate_script")]
               /\ adapter' = [adapter EXCEPT !.tools = Track(@, "evaluate_script")]
    /\ UNCHANGED <<agent, oracle, run, memory, notifyVars, clientVars, retryCase,
                   policyCase, resolveCase, resolver>>

\* The adapter method, or the smart-wait fallback, raises: the except branch
\* makes the failed outcome.
ExecAdapterRaises(exc) ==
    /\ exec.pc \in {"adapter", "page_ready", "smart_wait_fallback"}
    /\ exec.called >= 1
    /\ exec' = Returns([exec EXCEPT !.exc = exc], exec.raw,
                       ActionOutcome(FALSE, failure_reason(exc), JNone, adapter.tools))
    /\ adapter' = [adapter EXCEPT !.tools = <<>>]
    /\ UNCHANGED <<agent, oracle, run, memory, notifyVars, clientVars, retryCase,
                   policyCase, resolveCase, resolver>>

\* get_clickable_alternatives returns (its own exceptions give []): a list
\* that is not empty is put into raw under "suggested_alternatives".
ExecAlternatives(found) ==
    /\ exec.pc = "get_clickable_alternatives"
    /\ exec.called >= 1
    /\ LET alternative == JDict(<<<<"uid", JStr("1_1")>>, <<"text", JStr("clicked")>>>>)
           raw == IF found
                  THEN JDict(Append(exec.raw.items,
                                    <<"suggested_alternatives", JList(<<alternative>>)>>))
                  ELSE exec.raw
       IN exec' = Returns(exec, raw, attempt_result(raw, adapter.tools))
    /\ adapter' = [adapter EXCEPT !.tools = <<>>]
    /\ UNCHANGED <<agent, oracle, run, memory, notifyVars, clientVars, retryCase,
                   policyCase, resolveCase, resolver>>

\* smart_wait_fallback returns: when it confirmed the condition, raw becomes
\* {"smart_fallback": fallback, "source": "wait_for_timeout_recovered"}.
ExecFallback(fallback) ==
    /\ exec.pc = "smart_wait_fallback"
    /\ exec.called >= 1
    /\ LET raw == IF IsTrue(DictGet(fallback, "ok"))
                  THEN JDict(<<<<"smart_fallback", fallback>>,
                               <<"source", JStr("wait_for_timeout_recovered")>>>>)
                  ELSE exec.raw
       IN exec' = Returns([exec EXCEPT !.recovered = IsTrue(DictGet(fallback, "ok"))],
                          raw, attempt_result(raw, adapter.tools))
    /\ adapter' = [adapter EXCEPT !.tools = <<>>]
    /\ UNCHANGED <<agent, oracle, run, memory, notifyVars, clientVars, retryCase,
                   policyCase, resolveCase, resolver>>

ExecInit ==
    /\ Constructed
    /\ isNT = FALSE
    /\ NoAgentLoop
    /\ retryCase = NoCase
    /\ policyCase = NoPolicyCase
    /\ resolveCase = NoResolveCase
    /\ exec = [NoExec EXCEPT !.pc = "idle"]
    /\ resolver = NoResolver

\* One call of _execute_action on an adapter that is fresh or has served an
\* observation.
ExecNext ==
    \/ ExecObserved
    \/ \E action \in ExecActions : ExecEnter(action)
    \/ ExecSlept
    \/ \E tool \in ToolsOf("click") \cup ToolsOf("open_url") \cup ToolsOf("type_text")
                     \cup ToolsOf("press_key") \cup ToolsOf("wait_for") :
            ExecToolCall(tool)
    \/ \E raw \in Payloads : ExecAdapterReturns(raw)
    \/ \E raw \in Payloads : ExecNavigated(raw)
    \/ \E probe \in Probes, late \in BOOLEAN : ExecProbed(probe, late)
    \/ \E exc \in Exceptions : ExecAdapterRaises(exc)
    \/ \E found \in BOOLEAN : ExecAlternatives(found)
    \/ \E fallback \in Fallbacks : ExecFallback(fallback)

ExecSpec == ExecInit /\ [][ExecNext]_vars

\* ------------------------------------------------------------------ retry
\* should_retry with "<=" for "<".
should_retry_AtLimit(step_attempt, max_attempts, has_error) ==
    IF ~has_error THEN FALSE ELSE step_attempt <= max_attempts

\* should_retry(step_attempt, max_attempts, has_error)
should_retry(step_attempt, max_attempts, has_error) ==
    IF ~has_error THEN FALSE ELSE step_attempt < max_attempts

\* The retry loop of run() after the attempt numbered attempt: "if not
\* has_error: break" leaves it, otherwise "while attempt < limit" decides.
\* The loop does not call should_retry.
retry_loop_again(attempt, limit, has_error) ==
    IF ~has_error THEN FALSE ELSE attempt < limit

RetryInit ==
    /\ Constructed
    /\ isNT = FALSE
    /\ NoAgentLoop
    /\ policyCase = NoPolicyCase
    /\ resolveCase = NoResolveCase
    /\ exec = NoExec
    /\ resolver = NoResolver
    /\ \E a \in 0..MaxAttempt, m \in 0..MaxAttempt, e \in BOOLEAN :
            retryCase = [NoCase EXCEPT !.step_attempt = a, !.max_attempts = m,
                                       !.has_error = e, !.st = "args"]

\* should_retry is applied to the arguments, and the retry loop decides on
\* the same attempt, ceiling and outcome.
ShouldRetry ==
    /\ retryCase.st = "args"
    /\ retryCase' =
         [retryCase EXCEPT
            !.st = "applied",
            !.value = should_retry(retryCase.step_attempt, retryCase.max_attempts,
                                   retryCase.has_error),
            !.again = retry_loop_again(retryCase.step_attempt, retryCase.max_attempts,
                                       retryCase.has_error)]
    /\ UNCHANGED <<agentVars, notifyVars, clientVars, policyCase, resolveCase, exec, resolver>>

RetryNext == ShouldRetry

RetrySpec == RetryInit /\ [][RetryNext]_vars

\* ------------------------------------------------------------------ claims
CallIdx == 1..Len(calls)

\* request() has completed by raising what is not the response's error: its
\* timeout elapsed, or transport.send raised.
Failed(c) ==
    /\ calls[c].st = "raised"
    /\ calls[c].exc \in {"TimeoutError", "RuntimeError", "ConnectionResetError"}

\* The request of call c is outstanding: sent, its future still pending.
Outstanding(c) == calls[c].st = "wait" /\ calls[c].fut = "pending"

\* C1: the ids given to the session's requests are strictly increasing in
\* call order (so no two requests share an id), and every id given so far,
\* on whatever path the call ended, is below the next id the counter yields.
C1_IdsStrictlyIncreasing ==
    /\ \A i, j \in CallIdx : i < j => calls[i].id < calls[j].id
    /\ \A i \in CallIdx : calls[i].id < nextId

\* C1, witness: a call whose send raised, then a call that timed out, with
\* an id drawn by another session in between.
C1_Witness ==
    /\ Len(calls) = 2
    /\ calls[1].exc = "RuntimeError"
    /\ calls[2].exc = "TimeoutError"
    /\ calls[2].id > calls[1].id + 1

\* C2: the reader sets each request's future at most once, and a future
\* that is done, resolved or cancelled (by its call's timeout), is never
\* set again: its state, what it holds and the message that resolved it
\* stay as they are.  A cancelled future holds no outcome.
C2_ResolvedAtMostOnce ==
    /\ [](\A c \in CallIdx :
            /\ calls[c].nset <= 1
            /\ calls[c].fut \in {"pending", "cancelled"} =>
                  calls[c].nset = 0 /\ calls[c].out = NoOutcome /\ calls[c].by = NoMsg)
    /\ [][\A c \in CallIdx :
            calls[c].fut # "pending" =>
               /\ calls'[c].fut = calls[c].fut
               /\ calls'[c].out = calls[c].out
               /\ calls'[c].by = calls[c].by
               /\ calls'[c].nset = calls[c].nset]_vars

\* C2, witness: a response arrived for a call that had timed out (only the
\* reader removes a key from the pending table) and left the cancelled
\* future as it was, while another call's future was set once.
C2_Witness ==
    \E c, d \in CallIdx :
        /\ calls[c].fut = "cancelled"
        /\ calls[c].id \notin DOMAIN pending
        /\ calls[d].nset = 1

\* The message that resolved call c carries c's id, as the reader reads ids,
\* and carries the id of no other request.
ResolvedByOwnResponse(c) ==
    /\ is_response(calls[c].by)
    /\ IntOf(calls[c].by.id) = [ok |-> TRUE, v |-> calls[c].id]
    /\ \A d \in CallIdx \ {c} : calls[c].by.id # IntId(calls[d].id)

C4_FailedCallLeavesNoSlot ==
    \A c \in CallIdx : Failed(c) => calls[c].id \notin DOMAIN pending

\* Response m is awaited: its id converts to a key of the pending table
\* whose future is not done.
Awaited(m) == IntOf(m.id).ok /\ MaySet(pending, IntOf(m.id).v, calls)

\* C5 (as claimed): when the reader receives a response whose id is not
\* awaited, no call changes, no other key of the pending table changes, and
\* the reader goes on to the next message.
C5_UnawaitedResponseDropped ==
    [][\A m \in Messages :
         (ReaderStep(m) /\ m.line = "object" /\ is_response(m) /\ ~Awaited(m)) =>
            /\ calls' = calls
            /\ \A k \in DOMAIN pending :
                  (~IntOf(m.id).ok \/ k # IntOf(m.id).v) =>
                     k \in DOMAIN pending' /\ pending'[k] = pending[k]
            /\ reader' = "running"]_vars

\* The responses of Messages that carry the integer id n.
ResponsesTo(n) ==
    {ResultMsg(IntId(n), r) : r \in Results} \cup {ErrorMsg(IntId(n), e) : e \in ErrShapes}

\* C6: when a request times out, every other call and the whole pending
\* table are left as they were; and once a request has timed out, a
\* response carrying the integer id of another outstanding request, when
\* the reader receives it, resolves that request with its outcome.
C6_TimeoutLeavesOthers ==
    /\ [][\A c \in CallIdx :
            CallTimeout(c) =>
               /\ pending' = pending
               /\ \A d \in CallIdx \ {c} : calls'[d] = calls[d]]_vars
    /\ [][\A d \in CallIdx :
            (Outstanding(d) /\ \E c \in CallIdx : calls[c].exc = "TimeoutError") =>
               \A m \in ResponsesTo(calls[d].id) :
                  ReaderStep(m) =>
                     /\ calls'[d].by = m
                     /\ calls'[d].out = extract_result(m)
                     /\ calls'[d].st \in {"returned", "raised"}]_vars

\* C6, witness: the first request has timed out; the second, which was
\* outstanding then, keeps its slot and is still waiting.
C6_Witness ==
    /\ Len(calls) = 2
    /\ calls[1].exc = "TimeoutError"
    /\ Outstanding(2)
    /\ calls[2].id \in DOMAIN pending
    /\ reader = "running"

\* C7 (as claimed): the reader task runs until the session is stopped or
\* the child's output ends, whatever messages it has received.
C7_ReaderKeepsReading ==
    (reader # "none" /\ ~stdoutEOF /\ nStops.session = 0 /\ nStops.transport = 0)
        => reader = "running"

\* C8 (as claimed): a McpSession.stop() call on a started session has
\* invoked StdioTransport.stop() by the time it completes.
C8_StopInvokesTransportStop ==
    (started /\ sstop.pc \in {"returned", "raised"}) => sstop.invokedT

\* C9 (as claimed): no stop() call raises, and once stop() has been called
\* twice on a started session, or on its transport, and has completed, the
\* child is not alive.
C9_StopTwiceIdempotent ==
    /\ sstop.pc # "raised"
    /\ (NoStopRunning /\ (nStops.session = 2 \/ nStops.transport = 2)) => child # "alive"

\* C10 (as claimed): wherever request() or StdioTransport.stop() waits, a
\* step of its own (the awaited event, or its timeout) can end the wait,
\* whatever the child does.
C10_EveryWaitBounded ==
    /\ \A c \in CallIdx :
          calls[c].st \in {"drain", "wait"} =>
             ENABLED (DrainReturns(c) \/ DrainRaises(c) \/ CallTimeout(c))
    /\ tstop.pc \in {"wait_closed", "taskkill", "wait_term", "wait_kill"} =>
          ENABLED (\/ TransportStopClosed
                   \/ \E killed \in BOOLEAN : TransportStopTaskkill(killed)
                   \/ TransportStopTerminated
                   \/ TransportStopKill
                   \/ TransportStopKilled
                   \/ SessionStopTimeout)


\* C11: when the reader receives a notification, it calls every handler
\* registered at that time, in registration order, after the calls made for
\* the notifications received before it, and it leaves the pending-call
\* table and the calls' futures as they are.
C11_NotificationToEveryHandler ==
    [][arrived' # arrived =>
          /\ delivered' = delivered \o [i \in 1..Len(handlers) |-> <<arrived', i>>]
          /\ pending' = pending
          /\ calls' = calls]_vars

\* The "error" member a response of each shape carries: its code, message
\* and data, or none of them.
ErrorPayload(e) ==
    IF e = "full" THEN Outcome("JsonRpcError", "data", 7, "msg")
    ELSE Outcome("JsonRpcError", "none", DefaultErrorCode, "Unknown JSON-RPC error")

\* C12: a request() whose future the reader resolved with a response that
\* carries an error member holds, and raises, JsonRpcError with the code,
\* message and data of the payload, or the defaults -32000 and "Unknown
\* JSON-RPC error" where the payload has none; it never returns a result.
C12_ErrorResponseRaisesJsonRpcError ==
    \A c \in CallIdx :
        calls[c].by.hasError =>
            /\ calls[c].out = ErrorPayload(calls[c].by.err)
            /\ calls[c].st # "returned"
            /\ calls[c].st = "raised" => calls[c].exc = "JsonRpcError"

\* run() is over: it returned its memory or an exception left it.
RunOver == run.pc \in {"returned", "raised"}

\* C13: no exception leaves run(): for every budget, retry ceiling, oracle
\* behaviour and outcome of the adapter's calls, run() ends by returning
\* its AgentMemory.
C13_RunNeverRaises == run.pc # "raised"

\* The oracle's last call returned "done".
OracleSaidDone ==
    oracle.consulted >= 1 /\ oracle.script[oracle.consulted] = "done"

C15_BudgetExhaustion ==
    RunOver =>
        /\ (\A i \in 1..MaxSteps : oracle.script[i] = "act") =>
              /\ run.pc = "returned"
              /\ oracle.consulted = agent.max_steps
              /\ ~memory.success
              /\ memory.last_error = "Max steps reached"
        /\ (oracle.consulted >= 1 /\ oracle.script[oracle.consulted] \in {"done", "raise"})
              => memory.last_error # "Max steps reached"

\* The oracle's k-th call is the first that does not return an action, and
\* it does d.
FirstAt(k, d) ==
    /\ k \in 1..agent.max_steps
    /\ oracle.script[k] = d
    /\ \A j \in 1..(k - 1) : oracle.script[j] = "act"

\* C16: with an oracle whose call at step k raises, run() ends at that
\* call: the oracle was consulted k times, the history has no entry of step
\* k, success is false and last_error is the oracle's failure, not the
\* budget error.
C16_OracleFailureEndsRun ==
    \A k \in 1..MaxSteps :
        (RunOver /\ FirstAt(k, "raise")) =>
            /\ run.pc = "returned"
            /\ oracle.consulted = k
            /\ \A i \in 1..Len(memory.history) : memory.history[i].step # k - 1
            /\ ~memory.success
            /\ memory.last_error = "LLM decision error"

\* C17: with an oracle whose k-th decision is the first "done", k within
\* the budget, run() ends with success true, no last_error and at most k
\* history entries.
C17_DoneEndsRunWithSuccess ==
    \A k \in 1..MaxSteps :
        (RunOver /\ FirstAt(k, "done")) =>
            /\ run.pc = "returned"
            /\ memory.success
            /\ memory.last_error = None
            /\ Len(memory.history) <= k

\* C19: should_retry is true exactly when the attempt failed and its
\* number is below the ceiling, and the retry loop of run() goes on to
\* another attempt exactly when should_retry says so.
C19_ShouldRetryExact ==
    retryCase.st = "applied" =>
        /\ retryCase.value <=>
              (retryCase.has_error /\ retryCase.step_attempt < retryCase.max_attempts)
        /\ retryCase.again <=> retryCase.value

\* C19, witness: the three cases of tests/test_retry.py meet in one ceiling:
\* should_retry applied to a failed attempt 1 of 2, which is retried.
C19_Witness ==
    /\ retryCase.st = "applied"
    /\ retryCase.step_attempt = 1
    /\ retryCase.max_attempts = 2
    /\ retryCase.has_error
    /\ retryCase.value

\* C25: when the last of its four sub-captures has ended, however each of
\* them ended, _observe returns an Observation: no exception leaves it, and
\* its caller goes on with the observation.
C25_ObserveReturnsObservation ==
    [][run.pc = "accessibility_tree" => run'.pc = "build_state" /\ run'.exc = "none"]_vars

\* C30: a message that is neither a response nor a notification is
\* ignored: on receiving it the reader leaves the pending-call table and
\* the calls as they are, calls no handler, and goes on reading.
C30_OtherMessagesIgnored ==
    [][\A m \in OtherMessages :
          ReaderStep(m) =>
              /\ pending' = pending
              /\ calls' = calls
              /\ delivered' = delivered
              /\ reader' = "running"]_vars

\* The verbs an action may have.
ActionTypes == {"navigate", "click", "type", "press", "wait", "wait_for_text", "query"}

\* C29: the action made from any raw decision has one of the seven action
\* types, and the legacy verbs open, fill and key, press_key, keypress give
\* navigate, type and press.
C29_ActionTypeCanonical ==
    policyCase.st = "applied" =>
        LET verb == StripLower(policyCase.decision.action)
            given == policyCase.decision.hasAction
        IN /\ policyCase.action.action_type \in ActionTypes
           /\ (given /\ verb = "open") => policyCase.action.action_type = "navigate"
           /\ (given /\ verb = "fill") => policyCase.action.action_type = "type"
           /\ (given /\ verb \in {"key", "press_key", "keypress"})
                  => policyCase.action.action_type = "press"

\* The identifiers the snapshot of the resolution has.
SnapshotUids ==
    {resolveCase.lines[i].uid : i \in 1..Len(resolveCase.lines)} \ {None}

\* C28: for every token, on a snapshot that has a line with an identifier
\* _resolve_uid does not raise: it returns an identifier of the snapshot.
C28_ResolvesWhenSnapshotHasUid ==
    (resolveCase.st = "applied" /\ SnapshotUids # {}) =>
        /\ resolveCase.result.ok
        /\ resolveCase.result.uid \in SnapshotUids
\* The run is one in which every action the adapter executes fails, the
\* oracle's first decision is an action and the budget has room for a
\* second step.
FailingStep ==
    /\ adapter.acts \in {"fail", "raise"}
    /\ agent.max_steps >= 2
    /\ oracle.script[1] = "act"

\* C21: a step whose attempts all fail does not end the run: with budget
\* left, run() goes on to the next step and consults the oracle again.
C21_FailedStepDoesNotEndRun ==
    (RunOver /\ FailingStep) => oracle.consulted >= 2

\* A reason with some text in it.
NonEmptyText(reason) == \E i \in 1..Len(reason) : reason[i] # ""

C26_FailurePayloadIsFailure ==
    (/\ exec.pc = "returned"
     /\ exec.exc.type = None
     /\ ~exec.recovered
     /\ IsTrue(DictGet(exec.raw, "isError")) \/ contains_negative_signal(exec.raw))
        => ~exec.result.success

\* seq without its repetitions, in the order of first occurrence.
RECURSIVE Distinct(_)
Distinct(seq) ==
    IF seq = <<>> THEN <<>>
    ELSE LET front == Distinct(SubSeq(seq, 1, Len(seq) - 1))
             last == seq[Len(seq)]
         IN IF \E i \in 1..Len(front) : front[i] = last THEN front
            ELSE Append(front, last)

\* C27: the tools_used of an attempt's outcome is the list of the tools
\* invoked while that attempt was executed, without repetitions and in the
\* order of their first invocation, whatever the action.
C27_ToolsUsedOfThisAttempt ==
    exec.pc = "returned" => exec.result.tools_used = Distinct(exec.invoked)

\* C31: StdioTransport.stop() escalates in a fixed order: taskkill and
\* terminate() are issued only once the child's input is closed and only to
\* a child that has not exited; kill() is issued only from the wait that
\* follows terminate() and only to a child that is still alive; and
\* _process is cleared only by the step with which stop() returns.
C31_StopEscalationOrder ==
    [][/\ (tstop'.pc \in {"taskkill", "wait_term"} /\ tstop'.pc # tstop.pc) =>
             /\ stdin = "closed"
             /\ child = "alive"
             /\ tstop.pc \in {"wait_closed", "taskkill"}
       /\ (tstop'.pc = "wait_kill" /\ tstop.pc # "wait_kill") =>
             /\ tstop.pc = "wait_term"
             /\ child = "alive"
             /\ stdin = "closed"
       /\ (proc /\ ~proc') =>
             /\ tstop.pc \in {"wait_closed", "taskkill", "wait_term", "wait_kill"}
             /\ tstop'.pc = "returned"]_vars

\* C31, witness: the child outlived the closing of its input and
\* terminate(), kill() has been issued, and _process is still set.
C31_Witness ==
    /\ tstop.pc = "wait_kill"
    /\ stdin = "closed"
    /\ child = "dead"
    /\ proc

\* The positions in the log of the calls of a tool.
CallsOf(tool) == {i \in 1..Len(resolver.log) : resolver.log[i] = tool}

\* The structural path was taken: a snapshot or the structural tool called.
OnStructuralPath ==
    CallsOf("take_snapshot") \cup CallsOf("click") \cup CallsOf("fill") # {}

C33_TypeRetriesScript ==
    (/\ resolver.method = "type_text"
     /\ OnStructuralPath
     /\ is_transient_click_miss(resolver.scripts[Len(resolver.scripts)]))
        => resolver.time > ClickDeadline

\* The first of the values that is not None, or None.
RECURSIVE FirstFound(_)
FirstFound(found) ==
    IF found = <<>> THEN None
    ELSE IF Head(found) # None THEN Head(found) ELSE FirstFound(Tail(found))

\* What the tiers find for a token, the preferred roles and the lines, each
\* taken by itself: (a) the role of a role-qualified selector, (b) a
\* preferred role on a line that contains the text, (c) a preferred role,
\* (d) a line that contains the text, (e) the button or link keyword, (f)
\* the first identifier.
TiersFound(token, roles, lines) ==
    LET InLine(l) == token.text \in l.has
    IN <<IF token.roleSel # None
         THEN find_first_uid_by_role(lines, token.roleSel, "") ELSE None,
         IF token.text # "" THEN FirstByRoles(lines, roles, token.text, 1) ELSE None,
         FirstByRoles(lines, roles, "", 1),
         IF token.text # "" THEN FirstUid(lines, InLine) ELSE None,
         IF token.button THEN find_first_uid_by_role(lines, "button", "") ELSE None,
         IF token.link THEN find_first_uid_by_role(lines, "link", "") ELSE None,
         find_first_uid(lines)>>

\* C34: _resolve_uid returns the identifier of the first tier, in the order
\* (a) to (f), that finds one, a later tier being consulted only when the
\* earlier ones found nothing; it raises only when no tier finds one.
C34_FirstMatchingTier ==
    resolveCase.st = "applied" =>
        LET first == FirstFound(TiersFound(resolveCase.token, resolveCase.roles,
                                           resolveCase.lines))
        IN IF first # None
           THEN resolveCase.result.ok /\ resolveCase.result.uid = first
           ELSE ~resolveCase.result.ok

\* The attempt ended without an exception.
ReturnedNormally == exec.pc = "returned" /\ exec.exc.type = None

\* C35: a navigate action fails without a readiness probe when the
\* navigation tool reports isError; it succeeds when a probe showed the
\* document ready with its body, or when at the deadline the body was the
\* last thing seen; otherwise it fails with the reason of the readiness
\* timeout or of the failed probe.
C35_NavigateOutcome ==
    (ReturnedNormally /\ exec.method = "open_url") =>
        /\ IsTrue(DictGet(exec.payload, "isError")) =>
              /\ ~exec.result.success
              /\ exec.invoked = <<"navigate_page">>
        /\ exec.readiness \in {"ready", "body"} => exec.result.success
        /\ exec.readiness = "timeout" =>
              /\ ~exec.result.success
              /\ exec.result.reason = <<"Timeout waiting for page to be ready">>
        /\ exec.readiness = "probe_failed" =>
              /\ ~exec.result.success
              /\ exec.result.reason =
                    <<"evaluate_script failed while waiting for page readiness">>

\* C36: for a wait with a condition the smart-wait fallback is called only
\* after a wait_for error with a timeout-shaped text; a fallback that
\* confirms makes the attempt a success; without it a wait_for error makes
\* the attempt a failure with the wait tool's error text.  A wait without a
\* condition calls no tool and succeeds.
C36_WaitOutcome ==
    (exec.pc = "returned" /\ exec.action.action_type \in {"wait", "wait_for_text"}) =>
        IF ~Falsy(exec.action.wait_event)
        THEN exec.exc.type = None =>
               /\ Len(exec.invoked) > 1 =>
                     /\ IsTrue(DictGet(exec.payload, "isError"))
                     /\ looks_like_timeout_error(extract_mcp_error(exec.payload))
               /\ exec.recovered => exec.result.success
               /\ (~exec.recovered /\ IsTrue(DictGet(exec.payload, "isError"))) =>
                     /\ ~exec.result.success
                     /\ exec.result.reason = <<extract_mcp_error(exec.payload)>>
        ELSE exec.invoked = <<>> /\ exec.result.success

\* A normalized action that cannot be executed: a verb outside the supported
\* set, a click or type without selector, a navigate without url.
Unexecutable(action) ==
    \/ action.action_type \notin ActionTypes
    \/ action.action_type \in {"click", "type"} /\ Falsy(action.selector)
    \/ action.action_type = "navigate" /\ Falsy(action.url)

C40_CleanPayloadIsSuccess ==
    (/\ ReturnedNormally
     /\ exec.action.action_type # "open"
     /\ ~Unexecutable(exec.action)
     /\ ~IsTrue(DictGet(exec.raw, "isError"))
     /\ ~contains_negative_signal(exec.raw))
        => exec.result.success

\* C39: after normalization a navigate action has a url that is not empty,
\* a navigation without url, spelled navigate or open, having become a
\* click (with a selector) or a wait; and to_browser_action and the
\* planner's normalization give every raw step the same verb.
C39_NavigateHasUrl ==
    policyCase.st = "normalized" =>
        /\ policyCase.direct.action_type = "navigate" => ~Falsy(policyCase.direct.url)
        /\ policyCase.planned.action = "navigate" => ~Falsy(policyCase.planned.url)
        /\ policyCase.direct.action_type = policyCase.planned.action
====
